---- MODULE Spec2Model ----
(***************************************************************************)
(* Model of the MeM-8 tiered memory store: the PersonalityCache, Stage1,   *)
(* Stage2 and Stage3 of src/src/memory.                                    *)
(*                                                                         *)
(* Conventions                                                             *)
(*  - A MemoryEntry is the record [epoch, token, weight, link1, link2].    *)
(*  - A HashMap / BTreeMap is a function whose DOMAIN is the key set.      *)
(*  - A file is a sequence of cells; one cell stands for one fixed-width   *)
(*    field of the bincode encoding (fixint, little-endian), so a block    *)
(*    has a fixed number of cells exactly as it has a fixed number of      *)
(*    bytes, and offsets are counted in cells.                             *)
(*  - f32 quantities are kept as exact integers over a fixed denominator:  *)
(*    link_strength over LinkScale = 2 * u16::MAX, decay factors over      *)
(*    2^24 (the f32 mantissa width).                                       *)
(*  - Iteration over a HashMap or a directory has no defined order; every  *)
(*    place where the code depends on it is a choice with \E.              *)
(*  - The PersonalityCache is modelled twice over the same variables:      *)
(*    SpecCache runs the bodies of its methods, each as one critical       *)
(*    section (what a call does to entries and token_index with its locks  *)
(*    held); SpecCacheLocks runs the methods thread by thread through the  *)
(*    acquisition and release of the two RwLocks.                          *)
(* Each component has its own specification (SpecCache, SpecCacheLocks,    *)
(* SpecStage1, SpecStage1Links, SpecStage2, SpecStage3, SpecCoder) over    *)
(* the shared variables; SpecPipeline runs Stage1 feeding Stage2.          *)
(* SpecCacheHits counts repeated get_memory hits, SpecStage3Promotion runs *)
(* evaluate_promotion, SpecStage2Compress adds compress_old_entries,       *)
(* SpecStage2Faults, SpecStage2Partial and SpecStage3Partial add damage to *)
(* the files and calls that an I/O error aborts, SpecStage3Restart adds a  *)
(* new Stage3 instance on the same directories, and SpecStage1Frequent     *)
(* runs maintain() with the clock advancing by just under an hour.         *)
(***************************************************************************)
EXTENDS Integers, Sequences, FiniteSets, TLC

(***************************************************************************)
(* Program constants                                                       *)
(***************************************************************************)
U16Max == 65535

\* The denominator of link_strength values: (weight / u16::MAX) / 2.
LinkScale == 2 * U16Max

(***************************************************************************)
(* Bounds of the model                                                     *)
(***************************************************************************)
MaxAccess == 1

\* The hits counted on one cached entry where the hits are what is checked.
MaxHits == 3

\* The number of threads sharing one PersonalityCache.
MaxThreads == 2

(***************************************************************************)
(* Input domains                                                           *)
(***************************************************************************)
NoEpoch == 0

CacheEpochs == {1, 2, 3}

CacheTokens == {100, 200}

MemoryEntry(epoch, token, weight, link1, link2) ==
    [epoch |-> epoch, token |-> token, weight |-> weight,
     link1 |-> link1, link2 |-> link2]

\* The weight each input entry carries (900, 800, 950 as in test_cache_eviction).
CacheWeightOf(e) == IF e = 1 THEN 900 ELSE IF e = 2 THEN 800 ELSE 950

\* Entries handed to PersonalityCache::update_memory.
CacheLinks == {<<NoEpoch, NoEpoch>>, <<1, NoEpoch>>, <<1, 2>>}

CacheInputs ==
    { MemoryEntry(e, t, CacheWeightOf(e), l[1], l[2]) :
        e \in CacheEpochs, t \in CacheTokens, l \in CacheLinks }

\* Entries without links, of either token.
HitInputs ==
    { MemoryEntry(e, t, CacheWeightOf(e), NoEpoch, NoEpoch) :
        e \in CacheEpochs, t \in CacheTokens }

\* Related-token sets handed to PersonalityCache::update_memory.
CacheRelated == {{}, {200}}

\* Limits passed to PersonalityCache::find_related_memories.
CacheLimits == {1, 3}

\* Capacities passed to PersonalityCache::new.
CacheCapacities == {0, 1, 2}

\* Thresholds passed to PersonalityCache::new, over LinkScale: 0.0 and 0.5.
CacheThresholds == {0, LinkScale \div 2}

VARIABLES
    pc_entries,        \* PersonalityCache.entries: epoch -> [entry, score]
    pc_token_index,    \* PersonalityCache.token_index: token -> set of epochs
    pc_max_entries,    \* PersonalityCache.max_entries
    pc_threshold,      \* PersonalityCache.personality_threshold, over LinkScale
    pc_ret,            \* outcome of the last PersonalityCache call
    pc_lock_entries,   \* the RwLock around entries: [writer, readers]
    pc_lock_index,     \* the RwLock around token_index: [writer, readers]
    pc_thread,         \* thread -> the line of the cache method it is at, or "idle"
    s3_index,          \* Stage3.index: epoch -> <<primary path, 0>>
    s3_primary,        \* files of storage_path: path -> cells
    s3_replica,        \* files of redundancy_path: path -> cells
    s3_stored,         \* epoch -> entry of the last successful store_core_memory
    s3_config,         \* Stage3.config: [min_weight_threshold, min_age_days]
    s3_ret,            \* outcome of the last Stage3 call
    ec_config,         \* ReedSolomonEC: [data_shards, parity_shards]
    ec_payload,        \* the bytes last handed to encode
    ec_shards,         \* the shards encode returned, as the caller holds them
    ec_ret,            \* outcome of the last ReedSolomonEC call
    clock,             \* SystemTime::now() in seconds since UNIX_EPOCH
    s2_files,          \* files of Stage2's storage_path: path -> cells
    s2_index,          \* Stage2.index: epoch -> <<path, offset>>
    s2_current_file,   \* Stage2.current_file: the path the handle is open on, or NoFile
    s2_current_file_entries, \* Stage2.current_file_entries
    s2_stored,         \* epoch -> entry last stored successfully in the directory
    s2_instance,       \* epochs stored successfully by the current Stage2 instance
    s2_config,         \* Stage2.config: [compression_age]
    s2_ret,            \* outcome of the last Stage2 call
    s1_entries,        \* Stage1.entries: epoch -> entry
    s1_current_epoch,  \* Stage1.current_epoch
    s1_last_cleanup,   \* Stage1.last_cleanup
    s1_config,         \* Stage1.config
    overflow_checks,   \* whether the build traps integer overflow (debug) or wraps
    s1_ret             \* outcome of the last Stage1 call

lockVars == <<pc_lock_entries, pc_lock_index, pc_thread>>

cacheVars == <<pc_entries, pc_token_index, pc_max_entries, pc_threshold, pc_ret,
               lockVars>>

coderVars == <<ec_config, ec_payload, ec_shards, ec_ret>>

stage3Vars == <<s3_index, s3_primary, s3_replica, s3_stored, s3_config, s3_ret>>

stage2Vars == <<s2_files, s2_index, s2_current_file, s2_current_file_entries,
                s2_stored, s2_instance, s2_config, s2_ret>>

stage1Vars == <<s1_entries, s1_current_epoch, s1_last_cleanup, s1_config,
                overflow_checks, s1_ret>>

vars == <<cacheVars, stage3Vars, coderVars, clock, stage2Vars, stage1Vars>>

(***************************************************************************)
(* Maps                                                                    *)
(***************************************************************************)
EmptyMap == [k \in {} |-> 0]

MapInsert(m, k, v) == [x \in (DOMAIN m) \cup {k} |-> IF x = k THEN v ELSE m[x]]

MapRemove(m, k) == [x \in (DOMAIN m) \ {k} |-> m[x]]

\* The orders in which a HashMap or HashSet can yield the elements of S.
Orders(S) ==
    { q \in [1..Cardinality(S) -> S] : \A i, j \in 1..Cardinality(S) : q[i] = q[j] => i = j }

(***************************************************************************)
(* PersonalityCache                                                        *)
(***************************************************************************)
\* One term of the link_strength sum: a non-zero link that resolves to a
\* cached entry contributes that entry's score.weight (over u16::MAX).
LinkTerm(entries, link) ==
    IF link # 0 /\ link \in DOMAIN entries THEN entries[link].score.weight ELSE 0

\* calculate_personality_score: link_strength = (sum of terms) / 2, kept as
\* the sum over LinkScale.
calculate_personality_score(entries, entry) ==
    [weight |-> entry.weight,
     access_count |-> 0,
     link_strength |-> LinkTerm(entries, entry.link1) + LinkTerm(entries, entry.link2)]

\* a.weight as f32 * a.link_strength, over LinkScale.
EvictScore(score) == score.weight * score.link_strength

\* The candidates of entries.iter().min_by(..): min_by returns the first
\* minimum in iteration order, and a HashMap iterates in no defined order, so
\* every entry with the minimum score can be the one returned.
MinByCandidates(entries) ==
    { e \in DOMAIN entries :
        \A o \in DOMAIN entries :
            EvictScore(entries[e].score) <= EvictScore(entries[o].score) }

\* token_index.entry(token).or_default().insert(epoch)
IndexInsert(token_index, token, epoch) ==
    MapInsert(token_index, token,
              (IF token \in DOMAIN token_index THEN token_index[token] ELSE {})
                  \cup {epoch})

\* The clean-up of evict_lowest_scoring: the epoch leaves the set of the
\* evicted entry's own token only; the key stays even when its set is empty.
EvictCleanIndex(token_index, entry) ==
    IF entry.token \in DOMAIN token_index
    THEN [token_index EXCEPT ![entry.token] = @ \ {entry.epoch}]
    ELSE token_index

\* evict_lowest_scoring with the victim min_by returned.
EvictEntries(entries, victim) == MapRemove(entries, victim)

\* The for-loop over related_tokens left out.
IndexInsertAll_Skipped(token_index, tokens, epoch) == token_index

\* The for-loop over related_tokens.
RECURSIVE IndexInsertAll(_, _, _)
IndexInsertAll(token_index, tokens, epoch) ==
    IF tokens = {} THEN token_index
    ELSE LET t == CHOOSE x \in tokens : TRUE
         IN  IndexInsertAll(IndexInsert(token_index, t, epoch), tokens \ {t}, epoch)

\* The capacity test of update_memory.
NeedsEviction(entries, max_entries) == Cardinality(DOMAIN entries) >= max_entries

\* The admission test with a strict comparison.
Admits_Strict(score, threshold) == score.link_strength > threshold

\* The admission test of update_memory.
Admits(score, threshold) == score.link_strength >= threshold

\* PersonalityCache::update_memory(entry, related_tokens)
update_memory(entry, related_tokens) ==
    LET score == calculate_personality_score(pc_entries, entry)
    IN  IF Admits(score, pc_threshold)
        THEN \E victim \in (IF NeedsEviction(pc_entries, pc_max_entries)
                                /\ pc_entries # EmptyMap
                            THEN MinByCandidates(pc_entries) ELSE {NoEpoch}) :
               LET entries1 == IF victim = NoEpoch THEN pc_entries
                               ELSE EvictEntries(pc_entries, victim)
                   index1 == IF victim = NoEpoch THEN pc_token_index
                             ELSE EvictCleanIndex(pc_token_index, pc_entries[victim].entry)
                   index2 == IndexInsert(index1, entry.token, entry.epoch)
                   index3 == IndexInsertAll(index2, related_tokens, entry.epoch)
               IN  /\ pc_entries' = MapInsert(entries1, entry.epoch,
                                              [entry |-> entry, score |-> score])
                   /\ pc_token_index' = index3
                   /\ pc_ret' = [op |-> "update_memory", epoch |-> entry.epoch,
                                 admitted |-> TRUE, evicted |-> victim,
                                 entry |-> entry, related |-> related_tokens]
        ELSE /\ pc_ret' = [op |-> "update_memory", epoch |-> entry.epoch,
                           admitted |-> FALSE, evicted |-> NoEpoch,
                           entry |-> entry, related |-> related_tokens]
             /\ UNCHANGED <<pc_entries, pc_token_index>>

UpdateMemory ==
    /\ \E entry \in CacheInputs, related_tokens \in CacheRelated :
          update_memory(entry, related_tokens)
    /\ UNCHANGED <<pc_max_entries, pc_threshold, lockVars>>
    /\ UNCHANGED <<stage3Vars, coderVars, clock, stage2Vars, stage1Vars>>

\* Option<MemoryEntry>
None == [some |-> FALSE]

Some(entry) == [some |-> TRUE, value |-> entry]

\* What get_memory(epoch) returns on the given entries map.
get_memory_returns(entries, epoch) ==
    IF epoch \in DOMAIN entries THEN Some(entries[epoch].entry) ELSE None

\* The model stops counting the hits of one entry at max.
HitsLeft(epoch, max) ==
    epoch \in DOMAIN pc_entries => pc_entries[epoch].score.access_count < max

\* A hit that stores the count of a first hit whatever the count was.
get_memory_StoresOne(epoch) ==
    IF epoch \in DOMAIN pc_entries
    THEN /\ pc_entries' = [pc_entries EXCEPT ![epoch].score.access_count = 1]
         /\ pc_ret' = [op |-> "get_memory", epoch |-> epoch, admitted |-> FALSE,
                       evicted |-> NoEpoch,
                       found |-> Some(pc_entries[epoch].entry)]
    ELSE /\ pc_ret' = [op |-> "get_memory", epoch |-> epoch, admitted |-> FALSE,
                       evicted |-> NoEpoch, found |-> None]
         /\ UNCHANGED pc_entries

\* PersonalityCache::get_memory(epoch): a hit bumps access_count.
get_memory(epoch) ==
    IF epoch \in DOMAIN pc_entries
    THEN /\ pc_entries' = [pc_entries EXCEPT ![epoch].score.access_count = @ + 1]
         /\ pc_ret' = [op |-> "get_memory", epoch |-> epoch, admitted |-> FALSE,
                       evicted |-> NoEpoch,
                       found |-> get_memory_returns(pc_entries, epoch)]
    ELSE /\ pc_ret' = [op |-> "get_memory", epoch |-> epoch, admitted |-> FALSE,
                       evicted |-> NoEpoch,
                       found |-> get_memory_returns(pc_entries, epoch)]
         /\ UNCHANGED pc_entries

GetMemory ==
    /\ \E epoch \in CacheEpochs : HitsLeft(epoch, MaxAccess) /\ get_memory(epoch)
    /\ UNCHANGED <<pc_token_index, pc_max_entries, pc_threshold, lockVars>>
    /\ UNCHANGED <<stage3Vars, coderVars, clock, stage2Vars, stage1Vars>>

\* .take(limit)
Take(seq, limit) == SubSeq(seq, 1, IF limit < Len(seq) THEN limit ELSE Len(seq))

\* .filter_map(|&epoch| entries.get(&epoch)).map(|(entry, _)| entry.clone())
\* over the epochs in the order the HashSet yields them.
ResolveEpochs(entries, order) ==
    LET cached == SelectSeq(order, LAMBDA e : e \in DOMAIN entries)
    IN  [i \in 1..Len(cached) |-> entries[cached[i]].entry]

\* The vectors PersonalityCache::find_related_memories(token, limit) can
\* return, one for each order the HashSet of the token can iterate in.
find_related_memories(token_index, entries, token, limit) ==
    IF token \in DOMAIN token_index
    THEN { Take(ResolveEpochs(entries, order), limit) : order \in Orders(token_index[token]) }
    ELSE {<<>>}

\* A call of find_related_memories: it reads under the two read locks and
\* leaves the cache as it was.
FindRelatedMemories ==
    /\ \E token \in CacheTokens, limit \in CacheLimits :
          find_related_memories(pc_token_index, pc_entries, token, limit) # {}
    /\ UNCHANGED <<cacheVars, stage3Vars, coderVars, clock, stage2Vars, stage1Vars>>

\* The threads that share the cache.
Threads == 1..MaxThreads

NoThread == 0

\* RwLock::new
Unlocked == [writer |-> NoThread, readers |-> {}]

\* PersonalityCache::new(max_entries, personality_threshold)
NewCache(max_entries, personality_threshold) ==
    /\ pc_entries = EmptyMap
    /\ pc_token_index = EmptyMap
    /\ pc_max_entries = max_entries
    /\ pc_threshold = personality_threshold
    /\ pc_ret = [op |-> "new", epoch |-> NoEpoch, admitted |-> FALSE,
                 evicted |-> NoEpoch]
    /\ pc_lock_entries = Unlocked
    /\ pc_lock_index = Unlocked
    /\ pc_thread = [t \in Threads |-> "idle"]

NextCache == UpdateMemory \/ GetMemory \/ FindRelatedMemories

\* update_memory of an entry without links and without related tokens.
UpdateMemoryUnlinked ==
    /\ \E entry \in HitInputs : update_memory(entry, {})
    /\ UNCHANGED <<pc_max_entries, pc_threshold, lockVars>>
    /\ UNCHANGED <<stage3Vars, coderVars, clock, stage2Vars, stage1Vars>>

\* get_memory called again and again on the same entries.
GetMemoryOften ==
    /\ \E epoch \in CacheEpochs : HitsLeft(epoch, MaxHits) /\ get_memory(epoch)
    /\ UNCHANGED <<pc_token_index, pc_max_entries, pc_threshold, lockVars>>
    /\ UNCHANGED <<stage3Vars, coderVars, clock, stage2Vars, stage1Vars>>

NextCacheHits == UpdateMemoryUnlinked \/ GetMemoryOften

(***************************************************************************)
(* PersonalityCache: the two RwLocks (parking_lot), thread by thread.      *)
(* A thread is "idle" or at a line of personality_cache.rs:                *)
(*   um34, um35   update_memory about to take entries.write(), then        *)
(*                token_index.write()                                      *)
(*   um104        calculate_personality_score, called from line 38, about  *)
(*                to take entries.read()                                   *)
(*   um105        the rest of update_memory, the read lock taken           *)
(*   gm68, gm70   get_memory about to take entries.write(), then its body  *)
(*   fr84, fr85   find_related_memories about to take token_index.read(),  *)
(*                then entries.read()                                      *)
(*   fr87         its body                                                 *)
(*   st146, st148 stats about to take entries.read(), then its body        *)
(* A guard is released when the method returns.  parking_lot also makes a  *)
(* new reader wait while a writer is waiting; that only blocks more and is *)
(* left out.                                                               *)
(***************************************************************************)
\* The first line of each public method.
EntryPoints == {"um34", "gm68", "fr84", "st146"}

\* A grant of read() that ignores the writer.
CanRead_IgnoresWriter(lock) == TRUE

\* RwLock::read() is granted when no thread holds the lock for writing; the
\* lock is not reentrant, the caller's own write guard blocks it as well.
CanRead(lock) == lock.writer = NoThread

\* RwLock::write() is granted when no thread holds the lock at all.
CanWrite(lock) == lock.writer = NoThread /\ lock.readers = {}

WriteLocked(lock, t) == [lock EXCEPT !.writer = t]

ReadLocked(lock, t) == [lock EXCEPT !.readers = @ \cup {t}]

\* Dropping every guard the thread holds on the lock.
Released(lock, t) ==
    [writer |-> IF lock.writer = t THEN NoThread ELSE lock.writer,
     readers |-> lock.readers \ {t}]

\* A thread calls one of the public methods.
Call(t) ==
    /\ pc_thread[t] = "idle"
    /\ \E first \in EntryPoints : pc_thread' = [pc_thread EXCEPT ![t] = first]
    /\ UNCHANGED <<pc_entries, pc_token_index, pc_max_entries, pc_threshold, pc_ret,
                   pc_lock_entries, pc_lock_index>>
    /\ UNCHANGED <<stage3Vars, coderVars, clock, stage2Vars, stage1Vars>>

\* self.entries.write() at lines 34 and 68, self.token_index.write() at 35.
AcquireWrite(t) ==
    /\ pc_thread[t] \in {"um34", "gm68", "um35"}
    /\ IF pc_thread[t] = "um35"
       THEN /\ CanWrite(pc_lock_index)
            /\ pc_lock_index' = WriteLocked(pc_lock_index, t)
            /\ pc_thread' = [pc_thread EXCEPT ![t] = "um104"]
            /\ UNCHANGED pc_lock_entries
       ELSE /\ CanWrite(pc_lock_entries)
            /\ pc_lock_entries' = WriteLocked(pc_lock_entries, t)
            /\ pc_thread' = [pc_thread EXCEPT ![t] =
                                IF pc_thread[t] = "um34" THEN "um35" ELSE "gm70"]
            /\ UNCHANGED pc_lock_index
    /\ UNCHANGED <<pc_entries, pc_token_index, pc_max_entries, pc_threshold, pc_ret>>
    /\ UNCHANGED <<stage3Vars, coderVars, clock, stage2Vars, stage1Vars>>

\* self.token_index.read() at line 84, self.entries.read() at 85, 104 and 146.
AcquireRead(t) ==
    /\ pc_thread[t] \in {"fr84", "fr85", "um104", "st146"}
    /\ IF pc_thread[t] = "fr84"
       THEN /\ CanRead(pc_lock_index)
            /\ pc_lock_index' = ReadLocked(pc_lock_index, t)
            /\ pc_thread' = [pc_thread EXCEPT ![t] = "fr85"]
            /\ UNCHANGED pc_lock_entries
       ELSE /\ CanRead(pc_lock_entries)
            /\ pc_lock_entries' = ReadLocked(pc_lock_entries, t)
            /\ pc_thread' = [pc_thread EXCEPT ![t] =
                                IF pc_thread[t] = "fr85" THEN "fr87"
                                ELSE IF pc_thread[t] = "um104" THEN "um105" ELSE "st148"]
            /\ UNCHANGED pc_lock_index
    /\ UNCHANGED <<pc_entries, pc_token_index, pc_max_entries, pc_threshold, pc_ret>>
    /\ UNCHANGED <<stage3Vars, coderVars, clock, stage2Vars, stage1Vars>>

\* PersonalityCache::stats, on the entries map it reads.
stats(entries) ==
    [op |-> "stats", total_entries |-> Cardinality(DOMAIN entries),
     averages_are_nan |-> entries = EmptyMap]

\* The body of the method the thread is in, with the locks it needs held, up
\* to its return, which drops the guards.
Return(t) ==
    /\ pc_thread[t] \in {"gm70", "fr87", "st148", "um105"}
    /\ CASE pc_thread[t] = "gm70" ->
              /\ \E epoch \in CacheEpochs :
                    HitsLeft(epoch, MaxAccess) /\ get_memory(epoch)
              /\ UNCHANGED pc_token_index
         [] pc_thread[t] = "fr87" ->
              /\ \E token \in CacheTokens, limit \in CacheLimits :
                    \E found \in find_related_memories(pc_token_index, pc_entries,
                                                       token, limit) :
                        pc_ret' = [op |-> "find_related_memories", found |-> found]
              /\ UNCHANGED <<pc_entries, pc_token_index>>
         [] pc_thread[t] = "st148" ->
              /\ pc_ret' = stats(pc_entries)
              /\ UNCHANGED <<pc_entries, pc_token_index>>
         [] pc_thread[t] = "um105" ->
              \E entry \in CacheInputs, related_tokens \in CacheRelated :
                  update_memory(entry, related_tokens)
    /\ pc_lock_entries' = Released(pc_lock_entries, t)
    /\ pc_lock_index' = Released(pc_lock_index, t)
    /\ pc_thread' = [pc_thread EXCEPT ![t] = "idle"]
    /\ UNCHANGED <<pc_max_entries, pc_threshold>>
    /\ UNCHANGED <<stage3Vars, coderVars, clock, stage2Vars, stage1Vars>>

NextCacheLocks ==
    \E t \in Threads : Call(t) \/ AcquireWrite(t) \/ AcquireRead(t) \/ Return(t)

(***************************************************************************)
(* Serialization (bincode) and checksums                                   *)
(***************************************************************************)
\* serialize(&entry): the five fields in declaration order.
SerializeEntry(entry) ==
    <<entry.epoch, entry.token, entry.weight, entry.link1, entry.link2>>

\* crc32fast::hash over the serialized entry: a running remainder with a
\* non-zero start value, so that an all-zero entry does not hash to zero.
RECURSIVE CrcFold(_, _, _)
CrcFold(h, cells, i) ==
    IF i > Len(cells) THEN h
    ELSE CrcFold(((h * 31) + cells[i]) % 65521, cells, i + 1)

calculate_checksum(entry) == CrcFold(1, SerializeEntry(entry), 1)

\* The tail of a file from cell offset pos (SeekFrom::Start + read_to_end).
ReadFrom(cells, pos) == SubSeq(cells, pos + 1, Len(cells))

\* A write of data at offset 0 of a file opened without truncate: the cells
\* beyond the written ones stay.
WriteAtStart(old, data) ==
    IF Len(old) > Len(data) THEN data \o SubSeq(old, Len(data) + 1, Len(old))
    ELSE data

\* A write of data at cell offset pos of a file: cells before and beyond the
\* written ones stay.
WriteAt(old, pos, data) ==
    [i \in 1..(IF Len(old) > pos + Len(data) THEN Len(old) ELSE pos + Len(data)) |->
        IF i > pos /\ i <= pos + Len(data) THEN data[i - pos] ELSE old[i]]

\* A write of data at offset 0 of a file opened with truncate(true).
WriteTruncated(old, data) == data

(***************************************************************************)
(* Stage3                                                                  *)
(***************************************************************************)
S3Epochs == {1, 2}

S3Inputs == { MemoryEntry(e, 100, w, NoEpoch, NoEpoch) : e \in S3Epochs, w \in {800, 900} }

\* CompressionMetrics, one cell: it differs from call to call by the measured
\* compression_time.
S3Metrics == {1, 2}

\* The length of the zero fill of test_redundancy_recovery (100 bytes against
\* a block of 76), in cells.
ZeroFillLen == 11

RECURSIVE Xor(_, _)
Xor(a, b) ==
    IF a = 0 THEN b
    ELSE IF b = 0 THEN a
    ELSE (((a % 2) + (b % 2)) % 2) + 2 * Xor(a \div 2, b \div 2)

RECURSIVE XorFold(_, _)
XorFold(cells, i) == IF i > Len(cells) THEN 0 ELSE Xor(cells[i], XorFold(cells, i + 1))

\* CoreMemoryBlock::generate_parity: the XOR fold of the serialized entry.
generate_parity(entry) == <<XorFold(SerializeEntry(entry), 1)>>

\* CoreMemoryBlock::new
CoreMemoryBlock(entry, metrics) ==
    [entry |-> entry, metrics |-> metrics,
     checksum |-> calculate_checksum(entry), parity |-> generate_parity(entry)]

\* serialize(&block): entry, metrics, checksum, then parity with its length.
SerializeCore(block) ==
    SerializeEntry(block.entry) \o <<block.metrics, block.checksum, Len(block.parity)>>
        \o block.parity

CoreHeaderCells == 8

\* deserialize::<CoreMemoryBlock>: fails on a short buffer, accepts trailing cells.
CoreParses(cells) ==
    /\ Len(cells) >= CoreHeaderCells
    /\ Len(cells) >= CoreHeaderCells + cells[CoreHeaderCells]

DeserializeCore(cells) ==
    [entry |-> MemoryEntry(cells[1], cells[2], cells[3], cells[4], cells[5]),
     metrics |-> cells[6], checksum |-> cells[7],
     parity |-> SubSeq(cells, CoreHeaderCells + 1, CoreHeaderCells + cells[CoreHeaderCells])]

CoreVerify_Always(block) == TRUE

\* CoreMemoryBlock::verify
CoreVerify(block) == block.checksum = calculate_checksum(block.entry)

\* get_storage_path / get_backup_path: core_{epoch}.bin, named by the epoch.
get_storage_path(epoch) == epoch

get_backup_path(epoch) == epoch

\* read_memory_block followed by the match guard `Ok(block) if block.verify()`.
ReadsVerified(files, path) ==
    /\ path \in DOMAIN files
    /\ CoreParses(files[path])
    /\ CoreVerify(DeserializeCore(files[path]))

FileOrEmpty(files, path) == IF path \in DOMAIN files THEN files[path] ELSE <<>>

\* The write of store_core_memory: OpenOptions create + write, no truncate.
StoreWrite(files, path, encoded) ==
    MapInsert(files, path, WriteAtStart(FileOrEmpty(files, path), encoded))

repair_primary_EveryFile(files, epoch, block) ==
    [path \in (DOMAIN files) \cup {get_storage_path(epoch)} |-> SerializeCore(block)]

\* repair_primary: OpenOptions create + write + truncate, serialize(block).
repair_primary(files, epoch, block) ==
    MapInsert(files, get_storage_path(epoch),
              WriteTruncated(FileOrEmpty(files, get_storage_path(epoch)),
                             SerializeCore(block)))

S3NoRet == [op |-> "new", epoch |-> NoEpoch, result |-> "Ok",
            entry |-> MemoryEntry(0, 0, 0, 0, 0), encoded |-> <<>>,
            repaired |-> FALSE]

\* Stage3::store_core_memory(entry)
store_core_memory(entry, metrics) ==
    LET block == CoreMemoryBlock(entry, metrics)
        encoded == SerializeCore(block)
    IN  /\ s3_primary' = StoreWrite(s3_primary, get_storage_path(entry.epoch), encoded)
        /\ s3_replica' = StoreWrite(s3_replica, get_backup_path(entry.epoch), encoded)
        /\ s3_index' = MapInsert(s3_index, entry.epoch,
                                 <<get_storage_path(entry.epoch), 0>>)
        /\ s3_stored' = MapInsert(s3_stored, entry.epoch, entry)
        /\ s3_ret' = [op |-> "store_core_memory", epoch |-> entry.epoch,
                      result |-> "Ok", entry |-> entry, encoded |-> encoded,
                      repaired |-> FALSE]

StoreCoreMemory ==
    /\ \E entry \in S3Inputs, metrics \in S3Metrics : store_core_memory(entry, metrics)
    /\ UNCHANGED s3_config
    /\ UNCHANGED <<cacheVars, coderVars, clock, stage2Vars, stage1Vars>>

\* Stage3::get_core_memory(epoch)
get_core_memory(epoch) ==
    IF epoch \notin DOMAIN s3_index
    THEN /\ s3_ret' = [S3NoRet EXCEPT !.op = "get_core_memory", !.epoch = epoch,
                                      !.result = "NotFound"]
         /\ UNCHANGED <<s3_primary, s3_replica>>
    ELSE IF ReadsVerified(s3_primary, s3_index[epoch][1])
    THEN /\ s3_ret' = [S3NoRet EXCEPT !.op = "get_core_memory", !.epoch = epoch,
                           !.entry = DeserializeCore(s3_primary[s3_index[epoch][1]]).entry]
         /\ UNCHANGED <<s3_primary, s3_replica>>
    ELSE IF ReadsVerified(s3_replica, get_backup_path(epoch))
    THEN LET block == DeserializeCore(s3_replica[get_backup_path(epoch)])
         IN  /\ s3_primary' = repair_primary(s3_primary, epoch, block)
             /\ s3_ret' = [S3NoRet EXCEPT !.op = "get_core_memory", !.epoch = epoch,
                                          !.entry = block.entry, !.repaired = TRUE]
             /\ UNCHANGED s3_replica
    ELSE /\ s3_ret' = [S3NoRet EXCEPT !.op = "get_core_memory", !.epoch = epoch,
                                      !.result = "RedundancyError"]
         /\ UNCHANGED <<s3_primary, s3_replica>>

GetCoreMemory ==
    /\ \E epoch \in S3Epochs : get_core_memory(epoch)
    /\ UNCHANGED <<s3_index, s3_stored, s3_config>>
    /\ UNCHANGED <<cacheVars, coderVars, clock, stage2Vars, stage1Vars>>

ZeroFill == [i \in 1..ZeroFillLen |-> 0]

\* The corruption of test_redundancy_recovery: an existing file is opened
\* with write(true) and zeros are written over its start.
CorruptPrimary ==
    /\ \E path \in DOMAIN s3_primary :
          /\ s3_primary[path] # WriteAtStart(s3_primary[path], ZeroFill)
          /\ s3_primary' = [s3_primary EXCEPT ![path] = WriteAtStart(@, ZeroFill)]
          /\ s3_ret' = [S3NoRet EXCEPT !.op = "corrupt_primary", !.epoch = path]
    /\ UNCHANGED <<s3_index, s3_replica, s3_stored, s3_config>>
    /\ UNCHANGED <<cacheVars, coderVars, clock, stage2Vars, stage1Vars>>

\* The same damage to a file of the redundancy directory.
CorruptReplica ==
    /\ \E path \in DOMAIN s3_replica :
          /\ s3_replica[path] # WriteAtStart(s3_replica[path], ZeroFill)
          /\ s3_replica' = [s3_replica EXCEPT ![path] = WriteAtStart(@, ZeroFill)]
          /\ s3_ret' = [S3NoRet EXCEPT !.op = "corrupt_replica", !.epoch = path]
    /\ UNCHANGED <<s3_index, s3_primary, s3_stored, s3_config>>
    /\ UNCHANGED <<cacheVars, coderVars, clock, stage2Vars, stage1Vars>>

\* Stage3Config::default(): min_weight_threshold and min_age_days.
DefaultMinWeightThreshold == 800

DefaultMinAgeDays == 30

DefaultStage3Config ==
    [min_weight_threshold |-> DefaultMinWeightThreshold, min_age_days |-> DefaultMinAgeDays]

\* Configurations passed to Stage3::new.
S3Configs ==
    { DefaultStage3Config,
      [min_weight_threshold |-> 0, min_age_days |-> 0],
      [min_weight_threshold |-> U16Max, min_age_days |-> DefaultMinAgeDays],
      [min_weight_threshold |-> 700, min_age_days |-> 60] }

\* Entries and ages passed to evaluate_promotion: the weights and ages of the
\* spec's example (700, 900; 10, 60) and the ones next to the defaults.
PromotionInputs ==
    { MemoryEntry(1, 100, w, NoEpoch, NoEpoch) : w \in {0, 700, 799, 800, 900, U16Max} }

PromotionAges == {0, 10, 29, 30, 60}

evaluate_promotion_AgeOnly(config, entry, age_days) == age_days >= config.min_age_days

\* Stage3::evaluate_promotion(entry, age_days)
evaluate_promotion(config, entry, age_days) ==
    age_days >= config.min_age_days /\ entry.weight >= config.min_weight_threshold

EvaluatePromotion ==
    /\ \E entry \in PromotionInputs, age_days \in PromotionAges :
          s3_ret' = [op |-> "evaluate_promotion", epoch |-> entry.epoch,
                     result |-> "Ok", entry |-> entry, encoded |-> <<>>,
                     repaired |-> FALSE, age_days |-> age_days,
                     promoted |-> evaluate_promotion(s3_config, entry, age_days)]
    /\ UNCHANGED <<s3_index, s3_primary, s3_replica, s3_stored, s3_config>>
    /\ UNCHANGED <<cacheVars, coderVars, clock, stage2Vars, stage1Vars>>

\* Stage3::new(config) on empty directories
NewStage3Configured(config) ==
    /\ s3_index = EmptyMap
    /\ s3_primary = EmptyMap
    /\ s3_replica = EmptyMap
    /\ s3_stored = EmptyMap
    /\ s3_config = config
    /\ s3_ret = S3NoRet

\* Stage3::new(Stage3Config::default())
NewStage3 == NewStage3Configured(DefaultStage3Config)

NextStage3Promotion == EvaluatePromotion

NextStage3 == StoreCoreMemory \/ GetCoreMemory \/ CorruptPrimary \/ CorruptReplica

\* The cells of a block that reach the backup file when its write_all fails
\* part-way.
TornCoreCells == 4

\* The I/O errors that abort store_core_memory after the primary write: the
\* open of the backup file fails, or its write_all fails after writing the
\* given number of cells.
S3Faults == {<<"open", 0>>, <<"write", 0>>, <<"write", TornCoreCells>>}

\* Stage3::store_core_memory(entry) returning at the `?` the fault strikes:
\* the primary file is written, the backup file is as the fault left it, and
\* the index is not reached.
store_core_memory_fails(entry, metrics, fault) ==
    LET block == CoreMemoryBlock(entry, metrics)
        encoded == SerializeCore(block)
    IN  /\ s3_primary' = StoreWrite(s3_primary, get_storage_path(entry.epoch), encoded)
        /\ s3_replica' = IF fault[1] = "open" THEN s3_replica
                         ELSE StoreWrite(s3_replica, get_backup_path(entry.epoch),
                                         SubSeq(encoded, 1, fault[2]))
        /\ s3_ret' = [op |-> "store_core_memory", epoch |-> entry.epoch,
                      result |-> "Io", entry |-> entry, encoded |-> encoded,
                      repaired |-> FALSE]
        /\ UNCHANGED <<s3_index, s3_stored>>

StoreCoreMemoryFails ==
    /\ \E entry \in S3Inputs, metrics \in S3Metrics, fault \in S3Faults :
          store_core_memory_fails(entry, metrics, fault)
    /\ UNCHANGED s3_config
    /\ UNCHANGED <<cacheVars, coderVars, clock, stage2Vars, stage1Vars>>

NextStage3Partial == StoreCoreMemory \/ StoreCoreMemoryFails \/ GetCoreMemory

\* Stage3::new(config) on the storage and redundancy directories as they
\* are: create_dir_all leaves the files alone and the index starts empty.
ReopenStage3 ==
    /\ s3_ret.op # "new"
    /\ s3_index' = EmptyMap
    /\ s3_ret' = [S3NoRet EXCEPT !.op = "reopen"]
    /\ UNCHANGED <<s3_primary, s3_replica, s3_stored, s3_config>>
    /\ UNCHANGED <<cacheVars, coderVars, clock, stage2Vars, stage1Vars>>

NextStage3Restart == StoreCoreMemory \/ GetCoreMemory \/ ReopenStage3

(***************************************************************************)
(* Stage2                                                                  *)
(***************************************************************************)
\* The wall clock when the program starts, and how far the model lets it run.
ClockStart == 1700000000

MaxTicks == 2

\* The clock advances in steps of a second, an hour or a day; Ticks counts
\* the steps taken so far.
Ticks(now) ==
    ((now - ClockStart) \div 86400) + (((now - ClockStart) % 86400) \div 3600)
        + ((now - ClockStart) % 3600)

\* Stage2Config::default().compression_age: one week, in seconds.
DefaultCompressionAge == 604800

\* Stage2Config.entries_per_file of the modelled instance.
EntriesPerFile == 2

\* Blocks the journal directory may hold in the model.
MaxBlocks == 4

S2Inputs ==
    { MemoryEntry(1, 100, 500, NoEpoch, NoEpoch), MemoryEntry(2, 101, 600, NoEpoch, NoEpoch),
      MemoryEntry(3, 102, 700, NoEpoch, NoEpoch) }

S2Epochs == {1, 2, 3}

NoFile == 0

\* MemoryBlock::new
MemoryBlock(entry) ==
    [entry |-> entry, checksum |-> calculate_checksum(entry), compressed |-> FALSE]

BlockCells == 7

\* serialize(&block): entry, checksum, compressed.
SerializeBlock(block) ==
    SerializeEntry(block.entry) \o <<block.checksum, IF block.compressed THEN 1 ELSE 0>>

\* deserialize::<MemoryBlock>: fails on a short buffer or a bool that is
\* neither 0 nor 1, accepts trailing cells.
BlockParses(cells) == Len(cells) >= BlockCells /\ cells[BlockCells] \in {0, 1}

DeserializeBlock(cells) ==
    [entry |-> MemoryEntry(cells[1], cells[2], cells[3], cells[4], cells[5]),
     checksum |-> cells[6], compressed |-> (cells[BlockCells] = 1)]

BlockVerify_Always(block) == TRUE

\* MemoryBlock::verify
BlockVerify(block) == block.checksum = calculate_checksum(block.entry)

\* current_file_path at wall-clock second now: mem_{now}.bin, named by now.
current_file_path(now) == now

\* The rotation test of store_entry.
NeedsRotation(current_file, current_file_entries) ==
    current_file = NoFile \/ current_file_entries >= EntriesPerFile

\* The index entry store_entry records for a block written at pos into the
\* file the handle is open on, with current_file_path() read at second now.
IndexedLocation(handle_path, now, pos) == <<current_file_path(now), pos>>

TotalBlocks(files) ==
    LET RECURSIVE Sum(_)
        Sum(S) == IF S = {} THEN 0
                  ELSE LET p == CHOOSE x \in S : TRUE
                       IN  (Len(files[p]) \div BlockCells) + Sum(S \ {p})
    IN  Sum(DOMAIN files)

S2NoRet == [op |-> "new", epoch |-> NoEpoch, result |-> "Ok",
            entry |-> MemoryEntry(0, 0, 0, 0, 0)]

\* The fields of a Stage2 instance, with its directory.
Stage2State ==
    [files |-> s2_files, index |-> s2_index, current_file |-> s2_current_file,
     current_file_entries |-> s2_current_file_entries,
     stored |-> s2_stored, instance |-> s2_instance]

\* Stage2::store_entry(entry) on the instance st: rotate_file reads the clock
\* at second now, the index entry is made with the clock at second now + dt.
store_entry_on(st, entry, now, dt) ==
    LET rotate == NeedsRotation(st.current_file, st.current_file_entries)
        handle == IF rotate THEN current_file_path(now) ELSE st.current_file
        files1 == IF handle \in DOMAIN st.files THEN st.files
                  ELSE MapInsert(st.files, handle, <<>>)
        count1 == IF rotate THEN 0 ELSE st.current_file_entries
        block == MemoryBlock(entry)
        pos == Len(files1[handle])
    IN  [files |-> [files1 EXCEPT ![handle] = @ \o SerializeBlock(block)],
         index |-> MapInsert(st.index, block.entry.epoch,
                             IndexedLocation(handle, now + dt, pos)),
         current_file |-> handle,
         current_file_entries |-> count1 + 1,
         stored |-> MapInsert(st.stored, entry.epoch, entry),
         instance |-> st.instance \cup {entry.epoch}]

\* The instance and its directory become st.
Stage2Becomes(st) ==
    /\ s2_files' = st.files
    /\ s2_index' = st.index
    /\ s2_current_file' = st.current_file
    /\ s2_current_file_entries' = st.current_file_entries
    /\ s2_stored' = st.stored
    /\ s2_instance' = st.instance
    /\ UNCHANGED s2_config

\* Stage2::store_entry(entry); dt is the time that passes between the clock
\* read of rotate_file and the clock read for the index entry.
store_entry(entry, dt) ==
    /\ Stage2Becomes(store_entry_on(Stage2State, entry, clock, dt))
    /\ clock' = clock + dt
    /\ s2_ret' = [op |-> "store_entry", epoch |-> entry.epoch, result |-> "Ok",
                  entry |-> entry]

\* Stage2::accept_entries(entries) on the instance st, the whole call within
\* the clock second now: store_entry for each entry, in sequence order.
RECURSIVE accept_entries_on(_, _, _)
accept_entries_on(st, entries, now) ==
    IF entries = <<>> THEN st
    ELSE accept_entries_on(store_entry_on(st, Head(entries), now, 0), Tail(entries), now)

StoreEntry ==
    /\ TotalBlocks(s2_files) < MaxBlocks
    /\ \E entry \in S2Inputs, dt \in {0, 1} :
          /\ Ticks(clock) + dt <= MaxTicks
          /\ store_entry(entry, dt)
    /\ UNCHANGED <<cacheVars, stage3Vars, coderVars, stage1Vars>>

\* Stage2::get_entry(epoch) as a function of the index and the files.
get_entry(index, files, epoch) ==
    IF epoch \notin DOMAIN index
    THEN [S2NoRet EXCEPT !.op = "get_entry", !.epoch = epoch, !.result = "NotFound"]
    ELSE LET path == index[epoch][1]
             pos == index[epoch][2]
         IN  IF path \notin DOMAIN files
             THEN [S2NoRet EXCEPT !.op = "get_entry", !.epoch = epoch, !.result = "Io"]
             ELSE LET buffer == ReadFrom(files[path], pos)
                  IN  IF ~BlockParses(buffer)
                      THEN [S2NoRet EXCEPT !.op = "get_entry", !.epoch = epoch,
                                           !.result = "Serialization"]
                      ELSE IF ~BlockVerify(DeserializeBlock(buffer))
                      THEN [S2NoRet EXCEPT !.op = "get_entry", !.epoch = epoch,
                                           !.result = "ChecksumMismatch"]
                      ELSE [S2NoRet EXCEPT !.op = "get_entry", !.epoch = epoch,
                                           !.entry = DeserializeBlock(buffer).entry]

GetEntry ==
    /\ \E epoch \in S2Epochs : s2_ret' = get_entry(s2_index, s2_files, epoch)
    /\ UNCHANGED <<s2_files, s2_index, s2_current_file, s2_current_file_entries,
                   s2_stored, s2_instance, s2_config, clock>>
    /\ UNCHANGED <<cacheVars, stage3Vars, coderVars, stage1Vars>>

\* What the loop of load_index inserts for one file: the first read_to_end
\* takes the whole file, one block is deserialized from its start and
\* inserted at pos 0, and the next read_to_end returns Ok(0).
IndexedBlocks(cells) ==
    IF Len(cells) > 0 /\ BlockParses(cells)
    THEN {<<DeserializeBlock(cells).entry.epoch, 0>>}
    ELSE {}

\* load_index: the indexes read_dir can produce; when two files give the same
\* epoch, the file read_dir yields last wins.
load_index(files) ==
    LET found == { <<ib[1], p, ib[2]>> : <<p, ib>> \in
                     { <<p, ib>> \in (DOMAIN files) \X (S2Epochs \X {0}) :
                          ib \in IndexedBlocks(files[p]) } }
        epochs == { f[1] : f \in found }
    IN  { idx \in [epochs -> { <<f[2], f[3]>> : f \in found }] :
            \A e \in epochs : <<e, idx[e][1], idx[e][2]>> \in found }

\* Stage2::new(config) on the storage directory as it is.
Reopen ==
    /\ s2_ret.op # "new"
    /\ s2_index' \in load_index(s2_files)
    /\ s2_current_file' = NoFile
    /\ s2_current_file_entries' = 0
    /\ s2_instance' = {}
    /\ s2_ret' = S2NoRet
    /\ UNCHANGED <<s2_files, s2_stored, s2_config, clock>>
    /\ UNCHANGED <<cacheVars, stage3Vars, coderVars, stage1Vars>>

\* A second passes.
TickSecond ==
    /\ Ticks(clock) < MaxTicks
    /\ clock' = clock + 1
    /\ UNCHANGED <<cacheVars, stage3Vars, coderVars, stage2Vars, stage1Vars>>

\* Stage2Config::default, as far as the model keeps the configuration.
DefaultStage2Config == [compression_age |-> DefaultCompressionAge]

\* Stage2::new(config) on an empty directory
NewStage2Configured(config) ==
    /\ s2_config = config
    /\ s2_files = EmptyMap
    /\ s2_index = EmptyMap
    /\ s2_current_file = NoFile
    /\ s2_current_file_entries = 0
    /\ s2_stored = EmptyMap
    /\ s2_instance = {}
    /\ s2_ret = S2NoRet

\* Stage2::new(Stage2Config::default()) on an empty directory
NewStage2 == NewStage2Configured(DefaultStage2Config)

NextStage2 == StoreEntry \/ GetEntry \/ Reopen \/ TickSecond

\* Damage to the medium, the fault MemoryBlock::verify is there to detect:
\* the cells of one block of a journal file read back as zeros.
CorruptBlock ==
    /\ \E path \in DOMAIN s2_files :
          \E k \in 0..((Len(s2_files[path]) \div BlockCells) - 1) :
             LET zeros == [i \in 1..BlockCells |-> 0]
                 damaged == WriteAt(s2_files[path], k * BlockCells, zeros)
             IN  /\ damaged # s2_files[path]
                 /\ s2_files' = [s2_files EXCEPT ![path] = damaged]
                 /\ s2_ret' = [S2NoRet EXCEPT !.op = "corrupt_block", !.epoch = path]
    /\ UNCHANGED <<s2_index, s2_current_file, s2_current_file_entries,
                   s2_stored, s2_instance, s2_config, clock>>
    /\ UNCHANGED <<cacheVars, stage3Vars, coderVars, stage1Vars>>

NextStage2Faults == StoreEntry \/ GetEntry \/ CorruptBlock \/ TickSecond

\* The cells of a block that reach the file when write_all fails part-way.
TornCells == 3

\* The I/O errors store_entry can return with: the open of rotate_file fails,
\* the seek fails, or write_all fails after writing the given number of cells.
S2Faults == {<<"open", 0>>, <<"seek", 0>>, <<"write", TornCells>>}

\* The entry sequences handed to accept_entries.
S2Sequences ==
    LET e(n) == MemoryEntry(n, 99 + n, 400 + 100 * n, NoEpoch, NoEpoch)
    IN  { <<e(1)>>, <<e(2), e(3)>>, <<e(1), e(2), e(3)>> }

\* The fault can strike store_entry on the instance st: rotate_file opens a
\* file only when a rotation is due.
FaultApplies(st, fault) ==
    fault[1] = "open" => NeedsRotation(st.current_file, st.current_file_entries)

\* Stage2::store_entry(entry) on the instance st returning at the `?` the
\* fault strikes: a failed open leaves the instance as it was; past
\* rotate_file the new handle is in place with current_file_entries 0, and a
\* failed write_all leaves the cells it wrote at the end of the file. The
\* index and current_file_entries += 1 are never reached.
store_entry_fails_on(st, entry, now, fault) ==
    LET rotate == NeedsRotation(st.current_file, st.current_file_entries)
        handle == IF rotate THEN current_file_path(now) ELSE st.current_file
        files1 == IF handle \in DOMAIN st.files THEN st.files
                  ELSE MapInsert(st.files, handle, <<>>)
        count1 == IF rotate THEN 0 ELSE st.current_file_entries
        encoded == SerializeBlock(MemoryBlock(entry))
    IN  IF fault[1] = "open" THEN st
        ELSE [st EXCEPT !.files = [files1 EXCEPT ![handle] =
                                      @ \o SubSeq(encoded, 1, fault[2])],
                        !.current_file = handle,
                        !.current_file_entries = count1]

\* Stage2::accept_entries(entries) with the fault striking the store of the
\* k-th entry (no fault when k is past the last entry): the `?` returns the
\* error and the entries from the k-th on are never handed to store_entry.
accept_entries(entries, k, fault) ==
    LET stored == accept_entries_on(Stage2State, SubSeq(entries, 1, k - 1), clock)
    IN  IF k > Len(entries)
        THEN /\ Stage2Becomes(stored)
             /\ s2_ret' = [op |-> "accept_entries", epoch |-> NoEpoch, result |-> "Ok",
                           entry |-> S2NoRet.entry, entries |-> entries, failed |-> 0]
        ELSE /\ FaultApplies(stored, fault)
             /\ Stage2Becomes(store_entry_fails_on(stored, entries[k], clock, fault))
             /\ s2_ret' = [op |-> "accept_entries", epoch |-> NoEpoch, result |-> "Io",
                           entry |-> S2NoRet.entry, entries |-> entries, failed |-> k]

AcceptEntries ==
    /\ \E entries \in S2Sequences :
          /\ TotalBlocks(s2_files) + Len(entries) <= MaxBlocks
          /\ \E k \in 1..(Len(entries) + 1), fault \in S2Faults :
                accept_entries(entries, k, fault)
    /\ UNCHANGED clock
    /\ UNCHANGED <<cacheVars, stage3Vars, coderVars, stage1Vars>>

NextStage2Partial == AcceptEntries \/ TickSecond

\* A compression age that puts the threshold among the epochs of S2Inputs.
RecentCompressionAge == ClockStart - 2

S2Configs == {DefaultStage2Config, [compression_age |-> RecentCompressionAge]}

\* current_epoch - self.config.compression_age
compression_threshold(config, now) == now - config.compression_age

\* file.write_all(&encoded) on the handle File::open(path) returned: the
\* handle is read-only, the write fails and the file keeps its cells.
WriteReadOnly(cells, pos, data) == [ok |-> FALSE, cells |-> cells]

\* The loop of compress_old_entries over the index entries of the epochs in
\* todo, in the ascending order BTreeMap::iter yields them: the result of the
\* call and the files it leaves.
RECURSIVE compress_old_entries_from(_, _, _, _)
compress_old_entries_from(index, files, threshold, todo) ==
    IF todo = {} THEN [result |-> "Ok", files |-> files]
    ELSE LET epoch == CHOOSE e \in todo : \A o \in todo : e <= o
             path == index[epoch][1]
             pos == index[epoch][2]
         IN  IF epoch >= threshold
             THEN compress_old_entries_from(index, files, threshold, todo \ {epoch})
             ELSE IF path \notin DOMAIN files
             THEN [result |-> "Io", files |-> files]
             ELSE IF ~BlockParses(ReadFrom(files[path], pos))
             THEN [result |-> "Serialization", files |-> files]
             ELSE LET block == DeserializeBlock(ReadFrom(files[path], pos))
                      encoded == SerializeBlock([block EXCEPT !.compressed = TRUE])
                      written == WriteReadOnly(files[path], pos, encoded)
                      files1 == [files EXCEPT ![path] = written.cells]
                  IN  IF block.compressed
                      THEN compress_old_entries_from(index, files, threshold,
                                                     todo \ {epoch})
                      ELSE IF ~written.ok
                      THEN [result |-> "Io", files |-> files1]
                      ELSE compress_old_entries_from(index, files1, threshold,
                                                     todo \ {epoch})

\* Stage2::compress_old_entries() with the clock at second now.
compress_old_entries(config, index, files, now) ==
    compress_old_entries_from(index, files, compression_threshold(config, now),
                              DOMAIN index)

CompressOldEntries ==
    /\ LET done == compress_old_entries(s2_config, s2_index, s2_files, clock)
       IN  /\ s2_files' = done.files
           /\ s2_ret' = [S2NoRet EXCEPT !.op = "compress_old_entries",
                                        !.result = done.result]
    /\ UNCHANGED <<s2_index, s2_current_file, s2_current_file_entries,
                   s2_stored, s2_instance, s2_config, clock>>
    /\ UNCHANGED <<cacheVars, stage3Vars, coderVars, stage1Vars>>

NextStage2Compress == StoreEntry \/ GetEntry \/ CompressOldEntries \/ TickSecond

(***************************************************************************)
(* Stage1                                                                  *)
(***************************************************************************)
\* Entries Stage1 may hold in the model.
MaxS1Entries == 2

\* How many times the clock advances by just under an hour.
MaxQuietTicks == 3

S1Tokens == {100}

S1Weights == {50, 1000, 33000, 40000}

\* Stage1Config::default(): max_age and min_weight (decay_rate is 0.95).
DefaultMaxAge == 86400

DefaultMinWeight == 100

DefaultConfig == [max_age |-> DefaultMaxAge, min_weight |-> DefaultMinWeight]

\* The configurations of the modelled instances: the default one and one
\* with a min_weight in the upper half of u16.
S1Configs == {DefaultConfig, [max_age |-> DefaultMaxAge, min_weight |-> 50000]}

\* MemoryEntry::age_from: current_epoch.saturating_sub(epoch_pointer)
age_from(entry, current_epoch) ==
    IF current_epoch >= entry.epoch THEN current_epoch - entry.epoch ELSE 0

\* One factor of decay_rate = 0.95 applied to a value in units of 2^-24,
\* rounded to the nearest unit.
DecayHour(factor) == ((factor * 19) + 10) \div 20

Decay6Hours(factor) ==
    DecayHour(DecayHour(DecayHour(DecayHour(DecayHour(DecayHour(factor))))))

Decay36Hours(factor) ==
    Decay6Hours(Decay6Hours(Decay6Hours(Decay6Hours(Decay6Hours(Decay6Hours(factor))))))

\* `hours` factors of decay_rate applied to `factor`.
RECURSIVE DecayFactorFrom(_, _)
DecayFactorFrom(factor, hours) ==
    IF hours = 0 THEN factor
    ELSE IF hours >= 36 THEN DecayFactorFrom(Decay36Hours(factor), hours - 36)
    ELSE IF hours >= 6 THEN DecayFactorFrom(Decay6Hours(factor), hours - 6)
    ELSE DecayFactorFrom(DecayHour(factor), hours - 1)

\* decay_rate.powi(hours) for decay_rate = 0.95, in units of 2^-24.  From
\* 217 hours on the product with any u16 weight is below 1.
DecayFactor(hours) ==
    IF hours >= 217 THEN 0 ELSE DecayFactorFrom(16777216, hours)

\* The spacing of f32 values around a product p, both in units of 2^-12.
Ulp12(p) ==
    IF p < 16777216 THEN 1
    ELSE IF p < 33554432 THEN 2
    ELSE IF p < 67108864 THEN 4
    ELSE IF p < 134217728 THEN 8
    ELSE 16

\* weight as f32 * decay_factor in units of 2^-12, rounded to an f32 value
\* (computed in two halves of the factor to stay within 32 bits).
DecayProduct12(weight, factor) ==
    LET p == (weight * (factor \div 4096)) + (((weight * (factor % 4096)) + 2048) \div 4096)
    IN  ((p + (Ulp12(p) \div 2)) \div Ulp12(p)) * Ulp12(p)

\* A decay of one more hour than has passed.
DecayedWeight_PerCall(weight, hours) ==
    DecayProduct12(weight, DecayFactor(hours + 1)) \div 4096

\* (entry.weight() as f32 * decay_factor) as u16: the product, truncated.
DecayedWeight(weight, hours) == DecayProduct12(weight, DecayFactor(hours)) \div 4096

\* `x as i16` of a u16.
AsI16(x) == IF x >= 32768 THEN x - 65536 ELSE x

\* i16 wrap-around of an out-of-range difference.
WrapI16(x) == ((x + 32768) % 65536) - 32768

\* (new_weight as i16) - (entry.weight() as i16), before any wrap.
WeightDelta(weight, new_weight) == AsI16(new_weight) - AsI16(weight)

DeltaOverflows(weight, new_weight) ==
    WeightDelta(weight, new_weight) < -32768 \/ WeightDelta(weight, new_weight) > 32767

\* MemoryEntry::adjust_weight: weight.saturating_add_signed(delta)
adjust_weight(weight, delta) ==
    IF weight + delta < 0 THEN 0
    ELSE IF weight + delta > U16Max THEN U16Max
    ELSE weight + delta

\* The decay step of maintain for one entry (with the wrapped difference).
DecayEntry(entry, hours) ==
    [entry EXCEPT !.weight =
        adjust_weight(entry.weight,
                      WrapI16(WeightDelta(entry.weight, DecayedWeight(entry.weight, hours))))]

\* The removal test with an age bound that includes max_age itself.
ShouldRemove_AgeInclusive(entry, now, config) ==
    age_from(entry, now) >= config.max_age \/ entry.weight < config.min_weight

\* The removal test of maintain, on the entry after its decay step.
ShouldRemove(entry, now, config) ==
    age_from(entry, now) > config.max_age \/ entry.weight < config.min_weight

S1NoRet == [op |-> "new", before |-> EmptyMap, aged |-> <<>>, now |-> 0]

S1Usable == s1_ret.op # "maintain_panicked"

\* Stage1::add_memory(token, weight): MemoryEntry::new stamps the entry with
\* the current second.
add_memory(token, weight) ==
    LET entry == MemoryEntry(clock, token, weight, NoEpoch, NoEpoch)
    IN  /\ s1_entries' = MapInsert(s1_entries, entry.epoch, entry)
        /\ s1_current_epoch' = entry.epoch
        /\ s1_ret' = [S1NoRet EXCEPT !.op = "add_memory", !.now = clock]

AddMemory ==
    /\ S1Usable
    /\ Cardinality((DOMAIN s1_entries) \cup {clock}) <= MaxS1Entries
    /\ \E token \in S1Tokens, weight \in S1Weights : add_memory(token, weight)
    /\ UNCHANGED <<s1_last_cleanup, s1_config, overflow_checks, clock>>
    /\ UNCHANGED <<cacheVars, stage3Vars, coderVars, stage2Vars>>

\* Stage1::get_memory(epoch) on the given entries.
Stage1GetMemory(entries, epoch) ==
    IF epoch \in DOMAIN entries
    THEN [ok |-> TRUE, value |-> entries[epoch]]
    ELSE [ok |-> FALSE, error |-> "EntryNotFound", epoch |-> epoch]

\* Stage1::maintain() when it runs to its end.
maintain_returns ==
    LET now == clock
        hours == (now - s1_last_cleanup) \div 3600
        decayed == [e \in DOMAIN s1_entries |-> DecayEntry(s1_entries[e], hours)]
        to_remove == { e \in DOMAIN s1_entries : ShouldRemove(decayed[e], now, s1_config) }
    IN  \E order \in Orders(to_remove) :
          /\ s1_entries' = [e \in (DOMAIN s1_entries) \ to_remove |-> decayed[e]]
          /\ s1_last_cleanup' = now
          /\ s1_ret' = [op |-> "maintain", before |-> s1_entries,
                        aged |-> [i \in 1..Cardinality(to_remove) |-> decayed[order[i]]],
                        now |-> now]

\* Stage1::maintain() in a build that traps overflow, when the difference of
\* some entry overflows i16: the entries iterated before it are decayed, the
\* call panics, nothing is removed and last_cleanup stays.
maintain_panics(overflowing) ==
    LET hours == (clock - s1_last_cleanup) \div 3600
    IN  \E done \in SUBSET ((DOMAIN s1_entries) \ overflowing) :
          /\ s1_entries' = [e \in DOMAIN s1_entries |->
                              IF e \in done THEN DecayEntry(s1_entries[e], hours)
                              ELSE s1_entries[e]]
          /\ s1_ret' = [op |-> "maintain_panicked", before |-> s1_entries,
                        aged |-> <<>>, now |-> clock]
          /\ UNCHANGED s1_last_cleanup

\* Stage1::maintain()
maintain ==
    LET hours == (clock - s1_last_cleanup) \div 3600
        overflowing == { e \in DOMAIN s1_entries :
                           DeltaOverflows(s1_entries[e].weight,
                                          DecayedWeight(s1_entries[e].weight, hours)) }
    IN  IF overflow_checks /\ overflowing # {}
        THEN maintain_panics(overflowing)
        ELSE maintain_returns

Maintain ==
    /\ S1Usable
    /\ maintain
    /\ UNCHANGED <<s1_current_epoch, s1_config, overflow_checks, clock>>
    /\ UNCHANGED <<cacheVars, stage3Vars, coderVars, stage2Vars>>

\* An hour passes.
TickHour ==
    /\ Ticks(clock) < MaxTicks
    /\ clock' = clock + 3600
    /\ UNCHANGED <<cacheVars, stage3Vars, coderVars, stage2Vars, stage1Vars>>

\* A day passes.
TickDay ==
    /\ Ticks(clock) < MaxTicks
    /\ clock' = clock + 86400
    /\ UNCHANGED <<cacheVars, stage3Vars, coderVars, stage2Vars, stage1Vars>>

\* Stage1::new() with the given configuration and build.
NewStage1(config, checks) ==
    /\ s1_entries = EmptyMap
    /\ s1_current_epoch = 0
    /\ s1_last_cleanup = 0
    /\ s1_config = config
    /\ overflow_checks = checks
    /\ s1_ret = S1NoRet

NextStage1 == AddMemory \/ Maintain \/ TickSecond \/ TickHour \/ TickDay

\* A second less than an hour passes.
TickAlmostHour ==
    /\ clock - ClockStart < MaxQuietTicks * 3599
    /\ clock' = clock + 3599
    /\ UNCHANGED <<cacheVars, stage3Vars, coderVars, stage2Vars, stage1Vars>>

NextStage1Frequent == AddMemory \/ Maintain \/ TickAlmostHour

(***************************************************************************)
(* Stage1: links between entries                                           *)
(***************************************************************************)
\* Tokens of the entries that get linked: 100 and 101 are neighbours, 19761
\* is 19660 away from 101 (similarity just above 0.7) and 19661 away from
\* 100 (just below).
LinkTokens == {100, 101, 19761}

\* Entries a Stage1 holds while links are exercised.
MaxLinked == 3

\* An epoch no entry is ever stored under.
MissingEpoch == ClockStart - 1

\* Stage1Config::default().similarity_threshold, in tenths.
SimilarityThreshold == 7

\* add_memory with the tokens used for linking.
AddMemoryToLink ==
    /\ S1Usable
    /\ Cardinality((DOMAIN s1_entries) \cup {clock}) <= MaxLinked
    /\ \E token \in LinkTokens : add_memory(token, 1000)
    /\ UNCHANGED <<s1_last_cleanup, s1_config, overflow_checks, clock>>
    /\ UNCHANGED <<cacheVars, stage3Vars, coderVars, stage2Vars>>

\* MemoryEntry::update_links
update_links(entry, link1, link2) == [entry EXCEPT !.link1 = link1, !.link2 = link2]

S1LinkRet(result, epoch) ==
    [op |-> "link_memories", before |-> EmptyMap, aged |-> <<>>, now |-> clock,
     result |-> result, epoch |-> epoch]

link_memories_SkipsLink2(source_epoch, link1, link2) ==
    IF link1 # 0 /\ link1 \notin DOMAIN s1_entries
    THEN /\ s1_ret' = S1LinkRet("InvalidLink", link1)
         /\ UNCHANGED s1_entries
    ELSE IF source_epoch \in DOMAIN s1_entries
    THEN /\ s1_entries' = [s1_entries EXCEPT
                              ![source_epoch] = update_links(@, link1, link2)]
         /\ s1_ret' = S1LinkRet("Ok", source_epoch)
    ELSE /\ s1_ret' = S1LinkRet("EntryNotFound", source_epoch)
         /\ UNCHANGED s1_entries

\* Stage1::link_memories(source_epoch, link1, link2)
link_memories(source_epoch, link1, link2) ==
    IF link1 # 0 /\ link1 \notin DOMAIN s1_entries
    THEN /\ s1_ret' = S1LinkRet("InvalidLink", link1)
         /\ UNCHANGED s1_entries
    ELSE IF link2 # 0 /\ link2 \notin DOMAIN s1_entries
    THEN /\ s1_ret' = S1LinkRet("InvalidLink", link2)
         /\ UNCHANGED s1_entries
    ELSE IF source_epoch \in DOMAIN s1_entries
    THEN /\ s1_entries' = [s1_entries EXCEPT
                              ![source_epoch] = update_links(@, link1, link2)]
         /\ s1_ret' = S1LinkRet("Ok", source_epoch)
    ELSE /\ s1_ret' = S1LinkRet("EntryNotFound", source_epoch)
         /\ UNCHANGED s1_entries

\* Epochs link_memories is called with: the stored ones and one that is not.
LinkSources == (DOMAIN s1_entries) \cup {MissingEpoch}

\* Pairs (link1, link2) it is called with: no link, the first and the latest
\* epoch an entry was added at, and the epoch that is never stored.
LinkPairs ==
    { <<NoEpoch, NoEpoch>>, <<ClockStart, s1_current_epoch>>,
      <<s1_current_epoch, NoEpoch>>, <<MissingEpoch, ClockStart>>,
      <<ClockStart, MissingEpoch>>, <<MissingEpoch, MissingEpoch>> }

LinkMemories ==
    /\ S1Usable
    /\ \E source_epoch \in LinkSources, links \in LinkPairs :
          link_memories(source_epoch, links[1], links[2])
    /\ UNCHANGED <<s1_current_epoch, s1_last_cleanup, s1_config, overflow_checks, clock>>
    /\ UNCHANGED <<cacheVars, stage3Vars, coderVars, stage2Vars>>

\* Stage1::calculate_similarity, times U16Max: 1.0 - diff / 65535 is kept as
\* its numerator 65535 - diff.  Two quotients that differ differ by at least
\* 1/65535, far more than the f32 rounding of the division and subtraction.
calculate_similarity(token1, token2) ==
    LET diff == IF token1 >= token2 THEN token1 - token2 ELSE token2 - token1
        max_diff == U16Max
    IN  max_diff - diff

\* similarity >= self.config.similarity_threshold
MeetsThreshold(similarity) == similarity * 10 >= SimilarityThreshold * U16Max

\* best_matches before the sort: the targets that meet the threshold, in the
\* order of the epochs vector.
BestMatches(entries, epochs, source_epoch) ==
    LET source_token == entries[source_epoch].token
        Matches(target_epoch) ==
            /\ source_epoch # target_epoch
            /\ MeetsThreshold(calculate_similarity(source_token,
                                                   entries[target_epoch].token))
        targets == SelectSeq(epochs, Matches)
    IN  [i \in 1..Len(targets) |->
            [epoch |-> targets[i],
             similarity |-> calculate_similarity(source_token,
                                                 entries[targets[i]].token)]]

sort_by_Unsorted(matches) == matches

\* best_matches.sort_by(|a, b| b.1.partial_cmp(&a.1)): a stable sort,
\* descending in similarity.
RECURSIVE sort_by(_)
sort_by(matches) ==
    IF matches = <<>> THEN <<>>
    ELSE LET first == Head(matches)
             rest == sort_by(Tail(matches))
             Above(x) == x.similarity > first.similarity
             NotAbove(x) == ~ Above(x)
         IN  SelectSeq(rest, Above) \o <<first>> \o SelectSeq(rest, NotAbove)

\* best_matches.get(i).map(epoch).unwrap_or(0), counting from 1.
LinkAt(matches, i) == IF i <= Len(matches) THEN matches[i].epoch ELSE NoEpoch

\* Stage1::update_automatic_links(): the keys are iterated in an arbitrary
\* order, the same for every source.
update_automatic_links ==
    \E epochs \in Orders(DOMAIN s1_entries) :
       /\ s1_entries' =
             [source_epoch \in DOMAIN s1_entries |->
                LET best_matches == sort_by(BestMatches(s1_entries, epochs, source_epoch))
                IN  update_links(s1_entries[source_epoch],
                                 LinkAt(best_matches, 1), LinkAt(best_matches, 2))]
       /\ s1_ret' = [S1NoRet EXCEPT !.op = "update_automatic_links",
                                    !.before = s1_entries, !.now = clock]

UpdateAutomaticLinks ==
    /\ S1Usable
    /\ update_automatic_links
    /\ UNCHANGED <<s1_current_epoch, s1_last_cleanup, s1_config, overflow_checks, clock>>
    /\ UNCHANGED <<cacheVars, stage3Vars, coderVars, stage2Vars>>

NextStage1Links == AddMemoryToLink \/ LinkMemories \/ UpdateAutomaticLinks \/ TickSecond

(***************************************************************************)
(* Pipeline glue: Stage 1 -> Stage 2                                       *)
(***************************************************************************)
\* maintain_and_migrate(): Stage1.maintain(), then Stage2.accept_entries on
\* the entries it returned.  A maintain() that panics ends the call there.
MaintainAndMigrate ==
    /\ S1Usable
    /\ TotalBlocks(s2_files) + Cardinality(DOMAIN s1_entries) <= MaxBlocks
    /\ maintain
    /\ IF s1_ret'.op = "maintain"
       THEN /\ Stage2Becomes(accept_entries_on(Stage2State, s1_ret'.aged, clock))
            /\ s2_ret' = [S2NoRet EXCEPT !.op = "accept_entries"]
       ELSE UNCHANGED stage2Vars
    /\ UNCHANGED <<s1_current_epoch, s1_config, overflow_checks, clock>>
    /\ UNCHANGED <<cacheVars, stage3Vars, coderVars>>

NextPipeline == AddMemory \/ MaintainAndMigrate \/ TickHour \/ TickDay

(***************************************************************************)
(* ReedSolomonEC                                                           *)
(***************************************************************************)
\* The longest payload handed to encode.
MaxPayloadLen == 3

\* Byte values of the payloads.
CoderBytes == {0, 1, 2}

\* The coders constructed: one parity shard over two or three data shards.
\* With a single parity shard the code of reed_solomon_erasure is stood in
\* for by the bytewise XOR of the data shards: both restore any one lost
\* shard from the others.
DefaultCoder == [data_shards |-> 2, parity_shards |-> 1]

CoderConfigs == {DefaultCoder, [data_shards |-> 3, parity_shards |-> 1]}

CoderPayloads == UNION { [1..n -> CoderBytes] : n \in 1..MaxPayloadLen }

\* A shard as reconstruct of the library sees it: its bytes, or missing.
Shard(bytes) == [present |-> TRUE, bytes |-> bytes]

Missing == [present |-> FALSE, bytes |-> <<>>]

RECURSIVE XorBytes(_, _)
XorBytes(shards, k) ==
    IF shards = <<>> THEN 0 ELSE Xor(Head(shards)[k], XorBytes(Tail(shards), k))

\* ReedSolomon::encode with one parity shard: the parity shard is filled
\* from the data shards.
rs_encode(config, shards) ==
    LET data == SubSeq(shards, 1, config.data_shards)
    IN  [i \in 1..Len(shards) |->
            IF i <= config.data_shards THEN shards[i]
            ELSE [k \in 1..Len(shards[i]) |-> XorBytes(data, k)]]

\* ReedSolomonEC::encode(data): the shards it returns.
encode(config, data) ==
    LET shard_size == (Len(data) + config.data_shards - 1) \div config.data_shards
        filled == [i \in 1..(config.data_shards + config.parity_shards) |->
                     [k \in 1..shard_size |->
                         IF i <= config.data_shards /\ (i - 1) * shard_size + k <= Len(data)
                         THEN data[(i - 1) * shard_size + k]
                         ELSE 0]]
    IN  rs_encode(config, filled)

\* ReedSolomon::reconstruct: with at least data_shards shards present every
\* missing shard is restored from the present ones, otherwise it fails.
rs_reconstruct(config, shards) ==
    LET present == { i \in 1..Len(shards) : shards[i].present }
        lost == (1..Len(shards)) \ present
        size == IF present = {} THEN 0
                ELSE Len(shards[CHOOSE i \in present : TRUE].bytes)
        others(i) == LET rest == SelectSeq([j \in 1..Len(shards) |-> j],
                                           LAMBDA j : j # i)
                     IN  [n \in 1..Len(rest) |-> shards[rest[n]].bytes]
    IN  IF Cardinality(present) < config.data_shards
        THEN [ok |-> FALSE, shards |-> shards]
        ELSE [ok |-> TRUE,
              shards |-> [i \in 1..Len(shards) |->
                            IF i \in lost
                            THEN Shard([k \in 1..size |-> XorBytes(others(i), k)])
                            ELSE shards[i]]]

RECURSIVE Concat(_)
Concat(seqs) == IF seqs = <<>> THEN <<>> ELSE Head(seqs) \o Concat(Tail(seqs))

\* ReedSolomonEC::reconstruct(shards): the data shards, restored if need be,
\* one after the other.
reconstruct(config, shards) ==
    LET restored == rs_reconstruct(config, shards)
    IN  IF ~ restored.ok
        THEN [op |-> "reconstruct", result |-> "Err", bytes |-> <<>>]
        ELSE [op |-> "reconstruct", result |-> "Ok",
              bytes |-> Concat([i \in 1..config.data_shards |->
                                  restored.shards[i].bytes])]

ECNoRet == [op |-> "new", result |-> "Ok", bytes |-> <<>>]

\* ReedSolomonEC::new(data_shards, parity_shards)
NewCoder(config) ==
    /\ ec_config = config
    /\ ec_payload = <<>>
    /\ ec_shards = <<>>
    /\ ec_ret = ECNoRet

Encode ==
    /\ \E data \in CoderPayloads :
          /\ ec_payload' = data
          /\ ec_shards' = [i \in 1..(ec_config.data_shards + ec_config.parity_shards) |->
                              Shard(encode(ec_config, data)[i])]
    /\ ec_ret' = [ECNoRet EXCEPT !.op = "encode"]
    /\ UNCHANGED ec_config
    /\ UNCHANGED <<cacheVars, stage3Vars, clock, stage2Vars, stage1Vars>>

\* One of the shards is lost, as long as no more than parity_shards are.
Erase ==
    /\ Cardinality({ i \in 1..Len(ec_shards) : ~ ec_shards[i].present })
          < ec_config.parity_shards
    /\ \E i \in 1..Len(ec_shards) :
          /\ ec_shards[i].present
          /\ ec_shards' = [ec_shards EXCEPT ![i] = Missing]
    /\ ec_ret' = [ECNoRet EXCEPT !.op = "erase"]
    /\ UNCHANGED <<ec_config, ec_payload>>
    /\ UNCHANGED <<cacheVars, stage3Vars, clock, stage2Vars, stage1Vars>>

Reconstruct ==
    /\ ec_shards # <<>>
    /\ ec_ret' = reconstruct(ec_config, ec_shards)
    /\ UNCHANGED <<ec_config, ec_payload, ec_shards>>
    /\ UNCHANGED <<cacheVars, stage3Vars, clock, stage2Vars, stage1Vars>>

NextCoder == Encode \/ Erase \/ Reconstruct

(***************************************************************************)
(* Specifications                                                          *)
(***************************************************************************)
InitCache ==
    /\ \E max_entries \in CacheCapacities, personality_threshold \in CacheThresholds :
          NewCache(max_entries, personality_threshold)
    /\ NewStage3
    /\ clock = ClockStart
    /\ NewCoder(DefaultCoder)
    /\ NewStage2
    /\ NewStage1(DefaultConfig, FALSE)

SpecCache == InitCache /\ [][NextCache]_vars

InitCacheHits ==
    /\ NewCache(2, 0)
    /\ NewStage3
    /\ clock = ClockStart
    /\ NewCoder(DefaultCoder)
    /\ NewStage2
    /\ NewStage1(DefaultConfig, FALSE)

SpecCacheHits == InitCacheHits /\ [][NextCacheHits]_vars

InitCacheLocks ==
    /\ NewCache(2, 0)
    /\ NewStage3
    /\ clock = ClockStart
    /\ NewCoder(DefaultCoder)
    /\ NewStage2
    /\ NewStage1(DefaultConfig, FALSE)

SpecCacheLocks == InitCacheLocks /\ [][NextCacheLocks]_vars

InitStage3 ==
    /\ NewCache(2, 0)
    /\ NewStage3
    /\ clock = ClockStart
    /\ NewCoder(DefaultCoder)
    /\ NewStage2
    /\ NewStage1(DefaultConfig, FALSE)

SpecStage3 == InitStage3 /\ [][NextStage3]_vars

SpecStage3Partial == InitStage3 /\ [][NextStage3Partial]_vars

SpecStage3Restart == InitStage3 /\ [][NextStage3Restart]_vars

InitCoder ==
    /\ NewCache(2, 0)
    /\ NewStage3
    /\ clock = ClockStart
    /\ \E config \in CoderConfigs : NewCoder(config)
    /\ NewStage2
    /\ NewStage1(DefaultConfig, FALSE)

SpecCoder == InitCoder /\ [][NextCoder]_vars

InitStage3Promotion ==
    /\ NewCache(2, 0)
    /\ \E config \in S3Configs : NewStage3Configured(config)
    /\ clock = ClockStart
    /\ NewCoder(DefaultCoder)
    /\ NewStage2
    /\ NewStage1(DefaultConfig, FALSE)

SpecStage3Promotion == InitStage3Promotion /\ [][NextStage3Promotion]_vars

InitStage2 ==
    /\ NewCache(2, 0)
    /\ NewStage3
    /\ clock = ClockStart
    /\ NewCoder(DefaultCoder)
    /\ NewStage2
    /\ NewStage1(DefaultConfig, FALSE)

SpecStage2 == InitStage2 /\ [][NextStage2]_vars

SpecStage2Faults == InitStage2 /\ [][NextStage2Faults]_vars

SpecStage2Partial == InitStage2 /\ [][NextStage2Partial]_vars

InitStage2Compress ==
    /\ NewCache(2, 0)
    /\ NewStage3
    /\ clock = ClockStart
    /\ NewCoder(DefaultCoder)
    /\ \E config \in S2Configs : NewStage2Configured(config)
    /\ NewStage1(DefaultConfig, FALSE)

SpecStage2Compress == InitStage2Compress /\ [][NextStage2Compress]_vars

InitStage1 ==
    /\ NewCache(2, 0)
    /\ NewStage3
    /\ clock = ClockStart
    /\ NewCoder(DefaultCoder)
    /\ NewStage2
    /\ \E config \in S1Configs, checks \in BOOLEAN : NewStage1(config, checks)

SpecStage1 == InitStage1 /\ [][NextStage1]_vars

SpecStage1Frequent == InitStage1 /\ [][NextStage1Frequent]_vars

InitStage1Links ==
    /\ NewCache(2, 0)
    /\ NewStage3
    /\ clock = ClockStart
    /\ NewCoder(DefaultCoder)
    /\ NewStage2
    /\ NewStage1(DefaultConfig, FALSE)

SpecStage1Links == InitStage1Links /\ [][NextStage1Links]_vars

InitPipeline ==
    /\ NewCache(2, 0)
    /\ NewStage3
    /\ clock = ClockStart
    /\ NewCoder(DefaultCoder)
    /\ NewStage2
    /\ \E checks \in BOOLEAN : NewStage1(DefaultConfig, checks)

SpecPipeline == InitPipeline /\ [][NextPipeline]_vars

(***************************************************************************)
(* Properties of the PersonalityCache                                      *)
(***************************************************************************)
\* C1: every epoch held in any token_index[t] set is a key of the entries
\* map, after any sequence of update_memory and get_memory calls.
C1_TokenIndexHasNoOrphans ==
    \A t \in DOMAIN pc_token_index : pc_token_index[t] \subseteq DOMAIN pc_entries

\* C8: the number of cached entries never exceeds max_entries.
C8_WithinCapacity == Cardinality(DOMAIN pc_entries) <= pc_max_entries

SmallestEpoch(S) == CHOOSE e \in S : \A o \in S : e <= o

\* C9: an admission that evicts removes the entry with the minimum
\* evict_score and, among entries tied for the minimum, the smallest epoch.
C9_EvictsMinimumSmallestEpoch ==
    [][ (pc_ret'.op = "update_memory" /\ pc_ret'.evicted # NoEpoch)
          => pc_ret'.evicted = SmallestEpoch(MinByCandidates(pc_entries)) ]_vars

HasNoLinks(entry) == entry.link1 = NoEpoch /\ entry.link2 = NoEpoch

\* C10: when a full cache whose entries all have no links admits a new entry,
\* the evicted entry has the lowest weight and every other entry stays cached.
C10_EvictsLowestWeight ==
    [][ ( /\ pc_ret'.op = "update_memory" /\ pc_ret'.evicted # NoEpoch
          /\ pc_ret'.epoch \notin DOMAIN pc_entries
          /\ \A e \in DOMAIN pc_entries : HasNoLinks(pc_entries[e].entry) )
          => /\ \A o \in DOMAIN pc_entries :
                  pc_entries[pc_ret'.evicted].entry.weight <= pc_entries[o].entry.weight
             /\ (DOMAIN pc_entries) \ {pc_ret'.evicted} \subseteq DOMAIN pc_entries' ]_vars

\* The weight a link contributes to link_strength: that of the cached entry it
\* names, nothing for a zero link or one that names no cached entry.
CachedWeight(entries, link) ==
    IF link # NoEpoch /\ link \in DOMAIN entries THEN entries[link].entry.weight ELSE 0

Contains(found, entry) == \E i \in 1..Len(found) : found[i] = entry

\* The entry of the last update_memory call is in every vector that
\* find_related_memories(token, limit) can return, for each limit from the
\* size of the token's set on.
FoundUnder(token, entry) ==
    /\ token \in DOMAIN pc_token_index
    /\ \A limit \in {Cardinality(pc_token_index[token]),
                       Cardinality(pc_token_index[token]) + 1} :
          \A found \in find_related_memories(pc_token_index, pc_entries, token, limit) :
              Contains(found, entry)

\* C12: right after update_memory(e, R) admits e, get_memory(e.epoch) returns
\* e and find_related_memories(t, limit) contains e for every t in
\* {e.token} \cup R and every limit of at least the size of token_index[t].
C12_AdmittedIsRetrievable ==
    (pc_ret.op = "update_memory" /\ pc_ret.admitted)
        => /\ get_memory_returns(pc_entries, pc_ret.entry.epoch) = Some(pc_ret.entry)
           /\ \A t \in {pc_ret.entry.token} \cup pc_ret.related :
                 FoundUnder(t, pc_ret.entry)

\* An admission with a related token evicted an entry, and the related
\* token's set holds a second epoch beside the admitted one.
C12_Witness ==
    /\ pc_ret.op = "update_memory"
    /\ pc_ret.admitted
    /\ pc_ret.evicted # NoEpoch
    /\ pc_ret.related = {200}
    /\ pc_ret.entry.token = 100
    /\ Cardinality(pc_token_index[200]) >= 2

\* C13: in a cache created with personality_threshold 0.5 that has free
\* capacity, update_memory of an entry without links, or with links to entries
\* not cached, returns true, and the entry is then returned by get_memory and
\* by find_related_memories for each of its related tokens.
C13_HalfThresholdAdmits ==
    [][ ( /\ pc_ret'.op = "update_memory"
          /\ pc_threshold = LinkScale \div 2
          /\ Cardinality(DOMAIN pc_entries) < pc_max_entries
          /\ pc_ret'.entry.link1 \notin DOMAIN pc_entries
          /\ pc_ret'.entry.link2 \notin DOMAIN pc_entries )
          => /\ pc_ret'.admitted
             /\ get_memory_returns(pc_entries', pc_ret'.entry.epoch) = Some(pc_ret'.entry)
             /\ \A t \in pc_ret'.related :
                   \A found \in find_related_memories(pc_token_index', pc_entries', t, 3) :
                       Contains(found, pc_ret'.entry) ]_vars

\* The thread waits for a read guard of entries that its own write guard
\* keeps from being granted: nothing but its own return would release it.
WaitsOnItself(t) ==
    /\ pc_thread[t] = "um104"
    /\ ~CanRead(pc_lock_entries)
    /\ pc_lock_entries.writer = t

\* C14: no call of update_memory blocks forever on the cache's own locks:
\* its score computation never waits for a lock that the same call holds
\* exclusively, so every call returns.
C14_UpdateMemoryNeverWaitsOnItself == \A t \in Threads : ~WaitsOnItself(t)

\* The thread is inside update_memory with both write guards: from here to
\* its return lie the eviction, the token-index inserts and the entry insert.
InAdmission(t) == pc_thread[t] \in {"um104", "um105"}

\* The thread is in the body of get_memory, find_related_memories or stats,
\* reading entries (and, in find_related_memories, token_index).
Observing(t) == pc_thread[t] \in {"gm70", "fr87", "st148"}

\* C15: no get_memory, find_related_memories or stats call reads the maps
\* while an update_memory is between taking its locks and its return.
C15_NoObserverDuringAdmission ==
    \A u \in Threads, t \in Threads : (u # t /\ InAdmission(u)) => ~Observing(t)

\* One thread is inside update_memory with both locks while another thread
\* has called an observer that is held up at a lock.
C15_Witness ==
    \E u \in Threads, t \in Threads :
        /\ u # t
        /\ InAdmission(u)
        /\ pc_thread[t] \in {"gm68", "fr85", "st146"}

\* Thread t holds the write guard of entries and waits in update_memory for
\* the write guard of token_index, which thread u's read guard keeps from
\* being granted, while u waits in find_related_memories for a read guard of
\* entries, which t's write guard keeps from being granted.
WaitForEachOther(t, u) ==
    /\ pc_thread[t] = "um35"
    /\ pc_lock_entries.writer = t
    /\ ~CanWrite(pc_lock_index)
    /\ u \in pc_lock_index.readers
    /\ pc_thread[u] = "fr85"
    /\ ~CanRead(pc_lock_entries)

\* C31: a thread in update_memory and a thread in find_related_memories
\* never each hold one of the two locks while waiting for the other one.
C31_NoLockOrderDeadlock ==
    \A t \in Threads, u \in Threads : t # u => ~WaitForEachOther(t, u)

\* C25: whatever admissions, evictions and re-admissions came before,
\* find_related_memories(token, limit) returns at most limit entries, each of
\* them cached, and an entry is returned only under its primary token or a
\* related token of its most recent admission.  Stated at the moment an
\* admission completes, for every call that could follow it, the entry just
\* admitted being the one whose related tokens are known.
C25_FoundOnlyUnderCurrentTokens ==
    [][ (UpdateMemory /\ pc_ret'.admitted) =>
          \A token \in CacheTokens, limit \in CacheLimits :
             \A found \in find_related_memories(pc_token_index', pc_entries', token, limit) :
                /\ Len(found) <= limit
                /\ \A i \in 1..Len(found) :
                      /\ found[i].epoch \in DOMAIN pc_entries'
                      /\ pc_entries'[found[i].epoch].entry = found[i]
                      /\ found[i].epoch = pc_ret'.epoch
                            => (token = found[i].token \/ token \in pc_ret'.related) ]_vars

\* C32: update_memory of an entry whose epoch is already cached evicts no
\* entry and leaves the set of cached epochs as it was, at any fill of the
\* cache.
C32_RecachingEvictsNothing ==
    [][ (UpdateMemory /\ pc_ret'.epoch \in DOMAIN pc_entries)
          => /\ pc_ret'.evicted = NoEpoch
             /\ DOMAIN pc_entries' = DOMAIN pc_entries ]_vars

\* The step is get_memory(e).
GetsMemory(e) == GetMemoryOften /\ pc_ret'.epoch = e

\* The step is update_memory of an entry of epoch e.
UpdatesMemory(e) == UpdateMemoryUnlinked /\ pc_ret'.epoch = e

StoredBefore(entries, k) == { entries[j] : j \in 1..(k - 1) }

\* The entries of the sequence from the k-th on.
FromFailure(entries, k) == { entries[j] : j \in k..Len(entries) }

\* The call indexed the entries before the k-th and none from the k-th on.
IndexedUpTo(entries, k) ==
    /\ \A e \in StoredBefore(entries, k) : e.epoch \in DOMAIN s2_index'
    /\ \A e \in FromFailure(entries, k) :
          IF e.epoch \in DOMAIN s2_index
          THEN e.epoch \in DOMAIN s2_index' /\ s2_index'[e.epoch] = s2_index[e.epoch]
          ELSE e.epoch \notin DOMAIN s2_index'

\* get_entry returns each entry before the k-th once the call is over.
RetrievableUpTo(entries, k) ==
    \A e \in StoredBefore(entries, k) :
       LET got == get_entry(s2_index', s2_files', e.epoch)
       IN  got.result = "Ok" /\ got.entry = e

\* current_file_entries after n more blocks are indexed, a rotation being
\* due whenever no file is open or the open file has its EntriesPerFile.
RECURSIVE CountAfter(_, _, _)
CountAfter(opened, count, n) ==
    IF n = 0 THEN count
    ELSE CountAfter(TRUE, (IF ~opened \/ count >= EntriesPerFile THEN 0 ELSE count) + 1,
                    n - 1)

\* current_file_entries counts the blocks the call indexed and not the block
\* of the k-th entry: it is the count after k - 1 blocks, or 0 when the k-th
\* store got past the opening of a new file.
CountsIndexedBlocks(k, fault) ==
    LET count == CountAfter(s2_current_file # NoFile, s2_current_file_entries, k - 1)
        opened == s2_current_file # NoFile \/ k > 1
    IN  s2_current_file_entries' =
            IF fault[1] # "open" /\ (~opened \/ count >= EntriesPerFile) THEN 0 ELSE count

\* C27: when the store of the k-th entry of accept_entries fails, the call
\* returns the error, the entries before the k-th are in the index and
\* get_entry returns them, the call has indexed neither the k-th nor a later
\* entry, and current_file_entries counts only the blocks that were indexed.
C27_FailedAcceptKeepsThePrefix ==
    [][ \A entries \in S2Sequences, k \in 1..MaxBlocks, fault \in S2Faults :
          (/\ k <= Len(entries)
           /\ TotalBlocks(s2_files) + Len(entries) <= MaxBlocks
           /\ accept_entries(entries, k, fault))
             => /\ s2_ret'.result = "Io"
                /\ IndexedUpTo(entries, k)
                /\ RetrievableUpTo(entries, k)
                /\ CountsIndexedBlocks(k, fault) ]_vars

\* The block the index locates for the epoch is marked compressed.
MarkedCompressed(index, files, epoch) ==
    /\ index[epoch][1] \in DOMAIN files
    /\ BlockParses(ReadFrom(files[index[epoch][1]], index[epoch][2]))
    /\ DeserializeBlock(ReadFrom(files[index[epoch][1]], index[epoch][2])).compressed

\* C28: compress_old_entries returns Ok, every indexed block whose epoch is
\* older than the compression age is marked compressed afterwards, and
\* get_entry returns for every indexed epoch what it returned before.
C28_CompressMarksOldBlocks ==
    [][ CompressOldEntries
          => /\ s2_ret'.result = "Ok"
             /\ \A epoch \in DOMAIN s2_index :
                   epoch < compression_threshold(s2_config, clock)
                      => MarkedCompressed(s2_index', s2_files', epoch)
             /\ \A epoch \in DOMAIN s2_index :
                   get_entry(s2_index', s2_files', epoch)
                      = get_entry(s2_index, s2_files, epoch) ]_vars

(***************************************************************************)
(* Properties of Stage3                                                    *)
(***************************************************************************)
\* C4: when get_core_memory finds the primary bad (parse or checksum) and the
\* replica good, it returns the stored entry and leaves the primary file
\* identical to the replica file.
C4_SelfHealRestoresPrimary ==
    (s3_ret.op = "get_core_memory" /\ s3_ret.repaired)
        => /\ s3_ret.result = "Ok"
           /\ s3_ret.entry = s3_stored[s3_ret.epoch]
           /\ s3_primary[get_storage_path(s3_ret.epoch)]
                  = s3_replica[get_backup_path(s3_ret.epoch)]

\* C5: when store_core_memory returns successfully the primary and the
\* replica file of the epoch are identical and hold exactly the new block.
C5_StoreLeavesIdenticalCopies ==
    (s3_ret.op = "store_core_memory" /\ s3_ret.result = "Ok")
        => /\ s3_primary[get_storage_path(s3_ret.epoch)] = s3_ret.encoded
           /\ s3_replica[get_backup_path(s3_ret.epoch)] = s3_ret.encoded

\* The file holds a block that deserializes and whose checksum is the CRC-32
\* of its entry.
CopyIsGood(files, path) ==
    /\ path \in DOMAIN files
    /\ Len(files[path]) >= CoreHeaderCells
    /\ Len(files[path]) >= CoreHeaderCells + files[path][CoreHeaderCells]
    /\ files[path][7] = calculate_checksum(MemoryEntry(files[path][1], files[path][2],
                                                       files[path][3], files[path][4],
                                                       files[path][5]))

\* The entry of the block a file starts with.
EntryIn(files, path) ==
    MemoryEntry(files[path][1], files[path][2], files[path][3], files[path][4],
                files[path][5])

\* C22: get_core_memory(epoch) returns NotFound when epoch was never stored
\* and RedundancyError when neither the primary nor the replica holds a block
\* that parses and verifies, and then modifies no file; an Ok result is the
\* entry of a copy whose checksum is the CRC-32 of that entry.
C22_GetCoreMemoryErrors ==
    [][ GetCoreMemory =>
          LET epoch == s3_ret'.epoch
              primary_good == CopyIsGood(s3_primary, get_storage_path(epoch))
              replica_good == CopyIsGood(s3_replica, get_backup_path(epoch))
          IN  /\ epoch \notin DOMAIN s3_stored => s3_ret'.result = "NotFound"
              /\ (epoch \in DOMAIN s3_stored /\ ~ primary_good /\ ~ replica_good)
                    => /\ s3_ret'.result = "RedundancyError"
                       /\ s3_primary' = s3_primary
                       /\ s3_replica' = s3_replica
              /\ s3_ret'.result = "Ok"
                    => \/ /\ primary_good
                          /\ s3_ret'.entry = EntryIn(s3_primary, get_storage_path(epoch))
                       \/ /\ replica_good
                          /\ s3_ret'.entry = EntryIn(s3_replica, get_backup_path(epoch)) ]_vars

\* get_core_memory has just answered RedundancyError for a stored epoch.
C22_Witness ==
    /\ s3_ret.op = "get_core_memory"
    /\ s3_ret.result = "RedundancyError"
    /\ s3_ret.epoch \in DOMAIN s3_stored
    /\ ~ CopyIsGood(s3_primary, get_storage_path(s3_ret.epoch))
    /\ ~ CopyIsGood(s3_replica, get_backup_path(s3_ret.epoch))

\* C23: evaluate_promotion(entry, age_days) is true exactly when age_days >=
\* min_age_days and entry.weight >= min_weight_threshold, and the call leaves
\* the index, the files and the configuration as they were.
C23_PromotionIffOldAndHeavy ==
    [][ EvaluatePromotion =>
          /\ s3_ret'.promoted
                <=> ( /\ s3_ret'.age_days >= s3_config.min_age_days
                      /\ s3_ret'.entry.weight >= s3_config.min_weight_threshold )
          /\ UNCHANGED <<s3_index, s3_primary, s3_replica, s3_config>> ]_vars

\* The default configuration has just promoted the weight-900 entry at 60
\* days.
C23_Witness ==
    /\ s3_ret.op = "evaluate_promotion"
    /\ s3_config = DefaultStage3Config
    /\ s3_ret.entry.weight = 900
    /\ s3_ret.age_days = 60
    /\ s3_ret.promoted

\* C24: whatever the payload, and whichever shards (no more than
\* parity_shards of them) were lost after encode, reconstruct succeeds and
\* returns exactly the payload, in its original length.
C24_ReconstructReturnsPayload ==
    (ec_ret.op = "reconstruct")
        => /\ ec_ret.result = "Ok"
           /\ ec_ret.bytes = ec_payload

\* C30: get_core_memory leaves the index and every replica file as they
\* were; with a primary that verifies it writes nothing, and a repair
\* rewrites the primary file of the requested epoch and no other.
C30_GetCoreMemoryWritesOnlyItsPrimary ==
    [][ GetCoreMemory =>
          LET epoch == s3_ret'.epoch
          IN  /\ s3_index' = s3_index
              /\ s3_replica' = s3_replica
              /\ CopyIsGood(s3_primary, get_storage_path(epoch))
                    => s3_primary' = s3_primary
              /\ DOMAIN s3_primary' \subseteq (DOMAIN s3_primary) \cup {get_storage_path(epoch)}
              /\ \A path \in DOMAIN s3_primary :
                    path # get_storage_path(epoch)
                       => (path \in DOMAIN s3_primary' /\ s3_primary'[path] = s3_primary[path]) ]_vars

\* get_core_memory has just repaired one primary while the primary of
\* another epoch exists.
C30_Witness ==
    /\ s3_ret.op = "get_core_memory"
    /\ s3_ret.repaired
    /\ \E path \in DOMAIN s3_primary : path # get_storage_path(s3_ret.epoch)

(***************************************************************************)
(* Properties of Stage2                                                    *)
(***************************************************************************)
\* C2: every entry the current instance stored successfully stays in the
\* index and is what get_entry returns for its epoch.
C2_ReadYourWrites ==
    \A epoch \in s2_instance :
        /\ epoch \in DOMAIN s2_index
        /\ get_entry(s2_index, s2_files, epoch).result = "Ok"
        /\ get_entry(s2_index, s2_files, epoch).entry = s2_stored[epoch]

\* C3: right after a new Stage2 is constructed on the directory, every entry
\* stored before is returned by get_entry.
C3_ReopenRecoversAll ==
    (s2_ret.op = "new")
        => \A epoch \in DOMAIN s2_stored :
              /\ get_entry(s2_index, s2_files, epoch).result = "Ok"
              /\ get_entry(s2_index, s2_files, epoch).entry = s2_stored[epoch]

\* The cells of the block the index locates for the epoch, read from the
\* file as it is.
LocatedBlock(epoch) ==
    LET path == s2_index[epoch][1]
        pos == s2_index[epoch][2]
    IN  IF path \in DOMAIN s2_files /\ Len(s2_files[path]) >= pos + BlockCells
        THEN SubSeq(s2_files[path], pos + 1, pos + BlockCells)
        ELSE <<>>

\* The stored checksum of a block differs from the CRC-32 of its entry.
ChecksumDiffers(cells) ==
    cells[6] # calculate_checksum(MemoryEntry(cells[1], cells[2], cells[3],
                                              cells[4], cells[5]))

StoreWasAborted == s3_ret.op = "store_core_memory" /\ s3_ret.result = "Io"

\* The primary and the replica file of the epoch hold the same cells.
CopiesIdentical(primary, replica, epoch) ==
    /\ get_storage_path(epoch) \in DOMAIN primary
    /\ get_backup_path(epoch) \in DOMAIN replica
    /\ primary[get_storage_path(epoch)] = replica[get_backup_path(epoch)]

\* C29: the get_core_memory(e.epoch) that follows a store_core_memory(e)
\* aborted between the primary and the replica write returns e and leaves
\* the primary and the replica of the epoch identical.
C29_ReadHealsAbortedStore ==
    [][ (StoreWasAborted /\ GetCoreMemory /\ s3_ret'.epoch = s3_ret.epoch)
          => /\ s3_ret'.result = "Ok"
             /\ s3_ret'.entry = s3_ret.entry
             /\ CopiesIdentical(s3_primary', s3_replica', s3_ret.epoch) ]_vars

\* C33: once store_core_memory(e) has succeeded, the get_core_memory(e.epoch)
\* of a new Stage3 instance constructed on the same two directories returns
\* e.
C33_StoredCoreSurvivesRestart ==
    [][ (/\ s3_ret.op = "reopen"
         /\ GetCoreMemory
         /\ s3_ret'.epoch \in DOMAIN s3_stored)
          => /\ s3_ret'.result = "Ok"
             /\ s3_ret'.entry = s3_stored[s3_ret'.epoch] ]_vars

(***************************************************************************)
(* Properties of Stage1                                                    *)
(***************************************************************************)
\* How often an entry with the given epoch occurs in a sequence of entries.
Occurrences(seq, epoch) == Cardinality({ i \in 1..Len(seq) : seq[i].epoch = epoch })

\* C6: every entry stored with weight < min_weight is, after one maintain()
\* call, no longer in entries and occurs exactly once in the returned sequence.
C6_UnderweightIsEvicted ==
    (s1_ret.op \in {"maintain", "maintain_panicked"})
        => \A e \in DOMAIN s1_ret.before :
              s1_ret.before[e].weight < s1_config.min_weight
                  => /\ e \notin DOMAIN s1_entries
                     /\ Occurrences(s1_ret.aged, e) = 1

\* The weight an entry of the last maintain() call has after its decay step:
\* the stored one if the entry stayed, the returned one if it was removed.
WeightAfterDecay(e) ==
    IF e \in DOMAIN s1_entries THEN s1_entries[e].weight
    ELSE LET i == CHOOSE j \in 1..Len(s1_ret.aged) : s1_ret.aged[j].epoch = e
         IN  s1_ret.aged[i].weight

C17_DecayIsFloorAndNeverFails ==
    [][ ( /\ Maintain
          /\ DecayFactor((clock - s1_last_cleanup) \div 3600) > 0 )
          => /\ s1_ret'.op = "maintain"
             /\ \A e \in DOMAIN s1_entries :
                   LET hours == (clock - s1_last_cleanup) \div 3600
                       after == IF e \in DOMAIN s1_entries' THEN s1_entries'[e].weight
                                ELSE LET i == CHOOSE j \in 1..Len(s1_ret'.aged) :
                                                  s1_ret'.aged[j].epoch = e
                                     IN  s1_ret'.aged[i].weight
                   IN  /\ after = DecayedWeight(s1_entries[e].weight, hours)
                       /\ after <= s1_entries[e].weight ]_vars

\* C18: on a newly created Stage1 with the default configuration, an entry
\* added with weight 1000 is still returned by get_memory after the first
\* maintain() made within about a second, with a weight below 1000.
C18_FirstMaintainKeepsFreshEntry ==
    [][ ( /\ Maintain
          /\ s1_last_cleanup = 0
          /\ s1_config = DefaultConfig )
          => \A e \in DOMAIN s1_entries :
                (s1_entries[e].weight = 1000 /\ clock - e \in 1..2)
                   => LET found == Stage1GetMemory(s1_entries', e)
                      IN  found.ok /\ found.value.weight < 1000 ]_vars

\* The weight the entry of epoch e has after a maintain step, in the map or
\* in the vector the call returned.
WeightAfterMaintain(e) ==
    IF e \in DOMAIN s1_entries' THEN s1_entries'[e].weight
    ELSE LET i == CHOOSE j \in 1..Len(s1_ret'.aged) : s1_ret'.aged[j].epoch = e
         IN  s1_ret'.aged[i].weight

\* C34: a maintain() made less than 3600 seconds after the previous
\* maintain() returns, leaves the weight of every entry as it was and sets
\* last_cleanup to the clock; and no step other than a maintain() or an
\* add_memory over the same epoch changes a weight, so that with every
\* maintain() within an hour of the previous one no weight decays however
\* long the clock runs.
C34_FrequentMaintainNeverDecays ==
    [][ /\ (Maintain /\ s1_last_cleanup > 0 /\ clock - s1_last_cleanup < 3600)
             => /\ s1_ret'.op = "maintain"
                /\ s1_last_cleanup' = clock
                /\ \A e \in DOMAIN s1_entries :
                      WeightAfterMaintain(e) = s1_entries[e].weight
        /\ ~Maintain
             => \A e \in (DOMAIN s1_entries) \ {clock} :
                   e \in DOMAIN s1_entries' /\ s1_entries'[e] = s1_entries[e] ]_vars

\* A maintain() has just left at its weight of 1000 an entry that is at
\* least two hours less two seconds old.
C34_Witness ==
    /\ s1_ret.op = "maintain"
    /\ s1_last_cleanup = clock
    /\ \E e \in DOMAIN s1_entries :
          /\ clock - e >= 2 * 3599
          /\ e \in DOMAIN s1_ret.before
          /\ s1_ret.before[e].weight = 1000
          /\ s1_entries[e].weight = 1000

\* A link that link_memories accepts: 0 or the epoch of a stored entry.
ValidLink(link) == link = NoEpoch \/ link \in DOMAIN s1_entries

\* The step changes the two links of the source entry and nothing else.
OnlySourceLinksChange(source, l1, l2) ==
    /\ DOMAIN s1_entries' = DOMAIN s1_entries
    /\ \A e \in DOMAIN s1_entries :
          IF e = source
          THEN /\ s1_entries'[e].link1 = l1
               /\ s1_entries'[e].link2 = l2
               /\ s1_entries'[e].epoch = s1_entries[e].epoch
               /\ s1_entries'[e].token = s1_entries[e].token
               /\ s1_entries'[e].weight = s1_entries[e].weight
          ELSE s1_entries'[e] = s1_entries[e]

\* What C19 says of every call but the one with a missing source.
LinkMemoriesContract(source, l1, l2) ==
    /\ (s1_ret'.result = "Ok")
          <=> (source \in DOMAIN s1_entries /\ ValidLink(l1) /\ ValidLink(l2))
    /\ (~ ValidLink(l1) \/ ~ ValidLink(l2)) => s1_ret'.result = "InvalidLink"
    /\ s1_ret'.result # "Ok" => s1_entries' = s1_entries
    /\ s1_ret'.result = "Ok" => OnlySourceLinksChange(source, l1, l2)

\* C19 as stated: link_memories(source, l1, l2) succeeds iff source is stored
\* and each link is 0 or stored; it returns InvalidLink when a non-zero link
\* names no stored entry and NotFound when source is not stored; an error
\* modifies no entry and a success changes only the source's links.
C19_NotFoundWheneverSourceMissing ==
    [][ \A source \in LinkSources, links \in LinkPairs :
          (S1Usable /\ link_memories(source, links[1], links[2]))
             => /\ LinkMemoriesContract(source, links[1], links[2])
                /\ source \notin DOMAIN s1_entries
                      => s1_ret'.result = "EntryNotFound" ]_vars

\* C19, amended: the links are checked before the source, so InvalidLink,
\* naming the first bad link, is returned whenever a non-zero link names no
\* stored entry, and NotFound when both links are acceptable and source is
\* not stored; the rest as stated.
C19_LinksCheckedBeforeSource ==
    [][ \A source \in LinkSources, links \in LinkPairs :
          (S1Usable /\ link_memories(source, links[1], links[2]))
             => /\ LinkMemoriesContract(source, links[1], links[2])
                /\ (~ ValidLink(links[1]) \/ ~ ValidLink(links[2]))
                      => s1_ret'.epoch = IF ValidLink(links[1]) THEN links[2]
                                         ELSE links[1]
                /\ ( /\ source \notin DOMAIN s1_entries
                     /\ ValidLink(links[1]) /\ ValidLink(links[2]) )
                      => s1_ret'.result = "EntryNotFound" ]_vars

\* A successful link_memories has set two different links on its source while
\* another entry keeps none.
C19_Witness ==
    /\ s1_ret.op = "link_memories"
    /\ s1_ret.result = "Ok"
    /\ s1_entries[s1_ret.epoch].link1 # NoEpoch
    /\ s1_entries[s1_ret.epoch].link2 # NoEpoch
    /\ s1_entries[s1_ret.epoch].link1 # s1_entries[s1_ret.epoch].link2
    /\ \E e \in DOMAIN s1_entries :
          s1_entries[e].link1 = NoEpoch /\ s1_entries[e].link2 = NoEpoch

\* Similarity of two stored entries' tokens, times U16Max.
Closeness(s, e) == U16Max - (IF s1_entries[s].token >= s1_entries[e].token
                             THEN s1_entries[s].token - s1_entries[e].token
                             ELSE s1_entries[e].token - s1_entries[s].token)

\* The other stored entries whose similarity to s is at least 0.7.
Candidates(s) ==
    { e \in (DOMAIN s1_entries) \ {s} : 10 * Closeness(s, e) >= 7 * U16Max }

LinksOf(s) == {s1_entries[s].link1, s1_entries[s].link2} \ {NoEpoch}

InStage2(entry) ==
    /\ get_entry(s2_index, s2_files, entry.epoch).result = "Ok"
    /\ get_entry(s2_index, s2_files, entry.epoch).entry = entry

\* C16: when maintain() and then accept_entries on its result have both
\* completed, every entry maintain() removed is returned by Stage2.get_entry
\* under its epoch with the same token, weight and links and is no longer in
\* Stage 1; so every entry that has left Stage 1 stays readable in Stage 2.
C16_MigratedEntriesAreInStage2 ==
    /\ (s1_ret.op = "maintain" /\ s2_ret.op = "accept_entries")
          => \A i \in 1..Len(s1_ret.aged) :
                /\ InStage2(s1_ret.aged[i])
                /\ s1_ret.aged[i].epoch \notin DOMAIN s1_entries
    /\ \A epoch \in DOMAIN s2_stored : InStage2(s2_stored[epoch])

====
